---- MODULE Spec2Model ----
(***************************************************************************)
(* Model of the OpenIDM download engine: SegmentScheduler, SegmentWorker,  *)
(* DownloadTask, DownloadManager and PersistenceManager.                   *)
(*                                                                         *)
(* Byte offsets and byte counts are measured in blocks of 512 KiB, so the  *)
(* size constants of Types.h appear divided by 512 KiB; MAX_SEGMENTS is    *)
(* scaled down with them so that the clamp of the segment count is reached *)
(* by the file sizes the model explores.                                   *)
(***************************************************************************)
EXTENDS Integers, Sequences, FiniteSets, TLC

\* ------------------------------------------------------------------------
\* Program constants (Types.h, namespace Constants)
\* ------------------------------------------------------------------------
MIN_STEAL_SIZE == 1
MIN_SEGMENT_SIZE == 2
MIN_SEGMENTS == 1
MAX_SEGMENTS == 2
MAX_RETRIES == 5
DEFAULT_CONCURRENT_DOWNLOADS == 3
MinConcurrent == 1
MaxConcurrentLimit == 16
\* DownloadTypes.h, Config: 512 KiB, the unit of a SegmentInfo's byte fields
MIN_SPLIT_SIZE == 1

\* ------------------------------------------------------------------------
\* Bounds of the model
\* ------------------------------------------------------------------------
PoolLimit == 2
FileLen == 7
MaxPauses == 1
MaxFailures == 1
MaxCancels == 1
MaxMarkFailed == 6
MaxTasks == 3
MaxStored == 2
MaxQueued == 1
\* the largest value of a byte field of a SegmentInfo
MaxInfoBytes == 4
\* the most snapshots restoreSegments is given, and the largest id in one
MaxSnapshots == 2
MaxSnapshotId == 1

Workers == 1..PoolLimit
\* the content lengths a probe may report: the smallest file that is cut
\* into MAX_SEGMENTS segments, and the largest file of the model (whose
\* length leaves a remainder for the last segment)
Sizes == {MIN_SEGMENT_SIZE * MAX_SEGMENTS, FileLen}
\* the throughput a worker's write callback reports; a worker that has not
\* written yet reports nothing and counts as 0 in the scheduler's statistics
Speeds == {2}
NoSeg == 0

ServerKinds == {"lenient", "ignoring", "rejecting"}
CurlCategories == {"Network", "SSLError", "ServerError", "Unknown"}

VARIABLES
    \* DownloadTask
    taskState, mainPc, capsValid, supportsRanges, contentLength, totalSize,
    lastError, probing, taskWorkers, progressTimer, mDownloadedBytes,
    \* SegmentScheduler
    segs, pendingQueue, activeSegments, completedSegments, failedSegments,
    workerAssignments, workers, workerStats, nextSegmentId, paused,
    cancelled, rebalanceTimer,
    \* SegmentWorker (one per pool thread)
    wpc, wSeg, wPos, wReqEnd, wStop, wPaused, wOk, wErr, wAppend, wFilePos,
    wHandle,
    \* file system
    tempFiles, finalFile, finalExists,
    \* signals queued to the task's thread, and the number of
    \* allSegmentsCompleted emissions so far
    events, emitted,
    \* environment budgets
    pausesLeft, failuresLeft, cancelsLeft, markFailedLeft,
    \* DownloadManager
    mTasks, mMaxConcurrent, mActiveCount,
    \* what the last addDownload returned and logged, and the task object
    \* the last removeDownload destroyed
    addOutcome, removedTask,
    \* PersistenceManager: the write queue, m_running, whether the
    \* database is open, the write thread's position and the request it
    \* holds, the position of the thread that runs close()
    writeQueue, running, dbOpen, wtPc, wtReq, closePc,
    \* the tables of the database file
    downloadsTable, segmentsTable, settingsTable,
    \* what the server does with the Range header the workers send
    server,
    \* a SegmentInfo value, and what its remainingBytes() and canSplit()
    \* returned when they were last called
    segmentInfo, infoAnswer,
    \* the Segment::Snapshot values read back from the store for
    \* restoreSegments
    snapshots

taskVars == <<taskState, mainPc, capsValid, supportsRanges, contentLength,
             totalSize,
              lastError, probing, taskWorkers, progressTimer,
              mDownloadedBytes>>
schedVars == <<segs, pendingQueue, activeSegments, completedSegments,
               failedSegments, workerAssignments, workers, workerStats,
               nextSegmentId, paused, cancelled, rebalanceTimer>>
workerVars == <<wpc, wSeg, wPos, wReqEnd, wStop, wPaused, wOk, wErr,
                wAppend, wFilePos, wHandle>>
fileVars == <<tempFiles, finalFile, finalExists>>
sigVars == <<events, emitted>>
envVars == <<pausesLeft, failuresLeft, cancelsLeft, markFailedLeft>>
mgrVars == <<mTasks, mMaxConcurrent, mActiveCount, addOutcome, removedTask,
            writeQueue, running, dbOpen, wtPc, wtReq, closePc,
            downloadsTable, segmentsTable, settingsTable>>

infoVars == <<segmentInfo, infoAnswer, snapshots>>

vars == <<taskVars, schedVars, workerVars, fileVars, sigVars, envVars,
          mgrVars, server, infoVars>>

\* ------------------------------------------------------------------------
\* Helpers
\* ------------------------------------------------------------------------
Min(a, b) == IF a < b THEN a ELSE b
Max(a, b) == IF a > b THEN a ELSE b
Clamp(x, lo, hi) == IF x < lo THEN lo ELSE IF x > hi THEN hi ELSE x

SegIdx == 1..Len(segs)

RECURSIVE SumOver(_, _)
SumOver(S, f) ==
    IF S = {} THEN 0
    ELSE LET x == CHOOSE y \in S : TRUE IN f[x] + SumOver(S \ {x}, f)

RECURSIVE Range(_, _)
Range(a, b) == IF a > b THEN <<>> ELSE <<a>> \o Range(a + 1, b)

\* Segment.h: accessors
totalSizeOf(s) == s.end - s.start + 1
downloadedBytes(s) == s.cur - s.start
remainingBytes(s) == s.end - s.cur + 1
\* canRetry with the comparison off by one
canRetryInclusive(s) == s.retry <= MAX_RETRIES
canRetry(s) == s.retry < MAX_RETRIES
isSplittable(s, minSize) == remainingBytes(s) >= minSize * 2

NewSegment(id, startByte, endByte) ==
    [id |-> id, start |-> startByte, end |-> endByte, cur |-> startByte,
     state |-> "Pending", retry |-> 0, path |-> FALSE]

\* Segment::split: the donor keeps [cur, mid - 1], the new segment covers
\* [mid, end] with mid = cur + remaining / 2.
SplitPoint(s) == s.cur + (remainingBytes(s) \div 2)
SplitDonor(s) == [s EXCEPT !.end = SplitPoint(s) - 1]
SplitNew(s, newId) == NewSegment(newId, SplitPoint(s), s.end)

\* SegmentScheduler::calculateOptimalSegmentCount
calculateOptimalSegmentCount(total) ==
    IF total <= 0 THEN MIN_SEGMENTS
    ELSE Clamp(total \div MIN_SEGMENT_SIZE, MIN_SEGMENTS, MAX_SEGMENTS)

\* SegmentScheduler::initializeSegments: the segment vector it builds
\* the end offset taken as exclusive
InitSegEndExclusive(currentStart, thisSize) == currentStart + thisSize
InitSegEnd(currentStart, thisSize) == currentStart + thisSize - 1
\* initializeSegments taking the optimal count whatever count it is given
InitializeSegmentsByOptimalCount(total, segmentCount) ==
    LET cnt == calculateOptimalSegmentCount(total)
        segmentSize == total \div cnt
        remainder == total % cnt
    IN [i \in 1..cnt |->
          LET thisSize == segmentSize + (IF i = cnt THEN remainder ELSE 0)
              startByte == (i - 1) * segmentSize
          IN NewSegment(i - 1, startByte, InitSegEnd(startByte, thisSize))]
InitializeSegments(total, segmentCount) ==
    LET cnt == Clamp(segmentCount, MIN_SEGMENTS, MAX_SEGMENTS)
        segmentSize == total \div cnt
        remainder == total % cnt
    IN [i \in 1..cnt |->
          LET thisSize == segmentSize + (IF i = cnt THEN remainder ELSE 0)
              startByte == (i - 1) * segmentSize
          IN NewSegment(i - 1, startByte, InitSegEnd(startByte, thisSize))]

\* isAllComplete with the test of the failed set inverted
isAllCompleteWithFailures ==
    pendingQueue = <<>> /\ activeSegments = {} /\ failedSegments # {}
\* SegmentScheduler::isAllComplete / hasFailed
isAllComplete ==
    pendingQueue = <<>> /\ activeSegments = {} /\ failedSegments = {}
hasFailed == failedSegments # {}

\* SegmentScheduler::findLargestActiveSegment: the candidates the scan over
\* the pointer-ordered active set can return (ties are broken by address).
LargestActive ==
    {s \in activeSegments :
        /\ remainingBytes(segs[s]) > 0
        /\ isSplittable(segs[s], MIN_STEAL_SIZE)
        /\ \A t \in activeSegments :
              isSplittable(segs[t], MIN_STEAL_SIZE)
                  => remainingBytes(segs[t]) <= remainingBytes(segs[s])}

\* a QFile write at a handle position (append mode always writes at the end)
WriteAt(f, pos, b) ==
    IF pos < Len(f) THEN [f EXCEPT ![pos + 1] = b]
    ELSE f \o [i \in 1..(pos - Len(f)) |-> -1] \o <<b>>

Holding(w) == wpc[w] \in {"open", "transfer", "release"}

SeqsOf(S) ==
    {q \in [1..Cardinality(S) -> S] : \A i, j \in 1..Cardinality(S) :
                                          q[i] = q[j] => i = j}

\* DownloadTask::cleanupTempFiles: the temp files that remain
cleanupTempFiles(files) ==
    LET gone == {segs[i].id : i \in {j \in SegIdx : segs[j].path}}
    IN [id \in (DOMAIN files) \ gone |-> files[id]]

\* ------------------------------------------------------------------------
\* Initial state: a task just created by the manager (Queued, not probed)
\* ------------------------------------------------------------------------
TaskInit ==
    /\ taskState = "Queued" /\ mainPc = "idle" /\ capsValid = FALSE
    /\ supportsRanges = FALSE /\ contentLength = -1 /\ totalSize = -1
    /\ lastError = "None"
    /\ probing = FALSE /\ taskWorkers = {} /\ progressTimer = FALSE
    /\ mDownloadedBytes = 0
    /\ segs = <<>> /\ pendingQueue = <<>> /\ activeSegments = {}
    /\ completedSegments = {} /\ failedSegments = {}
    /\ workerAssignments = [w \in Workers |-> NoSeg]
    /\ workers = {} /\ workerStats = [w \in Workers |-> 0]
    /\ nextSegmentId = 0 /\ paused = FALSE /\ cancelled = FALSE
    /\ rebalanceTimer = FALSE
    /\ wpc = [w \in Workers |-> "none"]
    /\ wSeg = [w \in Workers |-> NoSeg]
    /\ wPos = [w \in Workers |-> 0]
    /\ wReqEnd = [w \in Workers |-> 0]
    /\ wStop = [w \in Workers |-> FALSE]
    /\ wPaused = [w \in Workers |-> FALSE]
    /\ wOk = [w \in Workers |-> FALSE]
    /\ wErr = [w \in Workers |-> "None"]
    /\ wAppend = [w \in Workers |-> FALSE]
    /\ wFilePos = [w \in Workers |-> 0]
    /\ wHandle = [w \in Workers |-> FALSE]
    /\ tempFiles = <<>> /\ finalFile = <<>> /\ finalExists = FALSE
    /\ events = <<>> /\ emitted = 0

\* a request that is no request
NoReq == [op |-> "none", id |-> 0]

MgrIdle ==
    /\ mTasks = <<>> /\ mMaxConcurrent = DEFAULT_CONCURRENT_DOWNLOADS
    /\ mActiveCount = 0
    /\ addOutcome = [id |-> 0, warning |-> ""]
    /\ removedTask = [state |-> "none"]
    \* PersistenceManager::initialize on a new database file: the tables
    \* are empty, the connection is open, the write thread has started
    /\ writeQueue = <<>> /\ running = TRUE /\ dbOpen = TRUE
    /\ wtPc = "top" /\ wtReq = NoReq /\ closePc = "idle"
    /\ downloadsTable = [id \in 1..MaxTasks |-> <<>>]
    /\ segmentsTable = [id \in 1..MaxTasks |-> <<>>]
    /\ settingsTable = <<>>

\* a default-constructed SegmentInfo on which nothing has been called
InfoIdle ==
    /\ segmentInfo = [startByte |-> 0, endByte |-> 0, downloadedBytes |-> 0]
    /\ infoAnswer = [remaining |-> 0, canSplit |-> FALSE, called |-> FALSE]
    /\ snapshots = <<>>

\* what the environment may still do: user pauses, transfer failures, user
\* cancels, markFailed calls
Budgets(p, f, c, m) ==
    /\ pausesLeft = p /\ failuresLeft = f /\ cancelsLeft = c
    /\ markFailedLeft = m

\* the server is of one kind for the whole run
ServerInit == server \in ServerKinds
\* a server whose answer is never longer than the range asked for
RangeServerInit == server \in ServerKinds \ {"ignoring"}

Init ==
    /\ TaskInit /\ MgrIdle /\ InfoIdle /\ ServerInit
    /\ Budgets(MaxPauses, MaxFailures, MaxCancels, MaxMarkFailed)

\* ------------------------------------------------------------------------
\* DownloadTask operations (run on the task's thread)
\* ------------------------------------------------------------------------

\* DownloadTask::start on a task that has not been probed: probeServer()
TaskStart ==
    /\ mainPc = "idle" /\ taskState = "Queued" /\ ~capsValid
    /\ taskState' = "Probing" /\ probing' = TRUE
    /\ UNCHANGED mDownloadedBytes
    /\ UNCHANGED <<mainPc, capsValid, supportsRanges, contentLength,
                   totalSize, lastError,
                   taskWorkers, progressTimer>>
    /\ UNCHANGED <<schedVars, workerVars, fileVars, sigVars, envVars,
                   mgrVars, server, infoVars>>

\* DownloadTask::onProbeCompleted: initializeSegments() and startWorkers()
OnProbeCompleted(len, ranges) ==
    /\ mainPc = "idle" /\ probing
    /\ probing' = FALSE /\ capsValid' = TRUE /\ supportsRanges' = ranges
    /\ contentLength' = len
    /\ totalSize' = IF len > 0 THEN len ELSE totalSize
    /\ LET fileSize == totalSize'
           segmentCount == IF ~ranges \/ fileSize <= 0 THEN 1
                           ELSE calculateOptimalSegmentCount(fileSize)
           newSegs == InitializeSegments(fileSize, segmentCount)
           workerCount == Min(Min(Len(newSegs), PoolLimit), MAX_SEGMENTS)
       IN /\ segs' = newSegs
          /\ pendingQueue' = Range(1, Len(newSegs))
          /\ nextSegmentId' = Len(newSegs)
          /\ taskWorkers' = 1..workerCount
          /\ wpc' = [w \in Workers |->
                       IF w \in 1..workerCount THEN "start" ELSE wpc[w]]
    /\ activeSegments' = {} /\ completedSegments' = {}
    /\ failedSegments' = {}
    /\ taskState' = "Downloading"
    /\ rebalanceTimer' = TRUE /\ progressTimer' = TRUE
    /\ UNCHANGED mDownloadedBytes
    /\ UNCHANGED <<mainPc, lastError, workerAssignments, workers,
                   workerStats, paused, cancelled>>
    /\ UNCHANGED <<wSeg, wPos, wReqEnd, wStop, wPaused, wOk, wErr, wAppend,
                   wFilePos, wHandle>>
    /\ UNCHANGED <<fileVars, sigVars, envVars, mgrVars, server, infoVars>>

\* DownloadTask::onProbeFailed
OnProbeFailed ==
    /\ mainPc = "idle" /\ probing
    /\ probing' = FALSE /\ lastError' = "Network" /\ taskState' = "Failed"
    /\ UNCHANGED mDownloadedBytes
    /\ UNCHANGED <<mainPc, capsValid, supportsRanges, contentLength,
                   totalSize, taskWorkers,
                   progressTimer>>
    /\ UNCHANGED <<schedVars, workerVars, fileVars, sigVars, envVars,
                   mgrVars, server, infoVars>>

\* DownloadTask::pause: SegmentWorker::pause on every worker, then
\* SegmentScheduler::pauseAll
TaskPause ==
    /\ mainPc = "idle" /\ taskState = "Downloading" /\ pausesLeft > 0
    /\ pausesLeft' = pausesLeft - 1
    /\ taskState' = "Paused"
    /\ wPaused' = [w \in Workers |-> IF w \in taskWorkers THEN TRUE
                                     ELSE wPaused[w]]
    /\ paused' = TRUE
    /\ \E order \in SeqsOf(activeSegments) :
          \* push_front in iteration order: the last one visited is in front
          pendingQueue' =
              [i \in 1..Len(order) |-> order[Len(order) + 1 - i]]
                  \o pendingQueue
    /\ segs' = [i \in SegIdx |->
                  IF i \in activeSegments
                  THEN [segs[i] EXCEPT !.state = "Paused"] ELSE segs[i]]
    /\ activeSegments' = {}
    /\ workerAssignments' = [w \in Workers |-> NoSeg]
    /\ rebalanceTimer' = FALSE /\ progressTimer' = FALSE
    /\ UNCHANGED mDownloadedBytes
    /\ UNCHANGED <<mainPc, capsValid, supportsRanges, contentLength,
                   totalSize, lastError,
                   probing, taskWorkers>>
    /\ UNCHANGED <<completedSegments, failedSegments, workers, workerStats,
                   nextSegmentId, cancelled>>
    /\ UNCHANGED <<wpc, wSeg, wPos, wReqEnd, wStop, wOk, wErr, wAppend,
                   wFilePos, wHandle>>
    /\ UNCHANGED <<fileVars, sigVars, failuresLeft, cancelsLeft,
                   markFailedLeft, mgrVars, server, infoVars>>

\* DownloadTask::resume: SegmentScheduler::resumeAll, then
\* SegmentWorker::resume on every worker
TaskResume ==
    /\ mainPc = "idle" /\ taskState = "Paused"
    /\ taskState' = "Downloading"
    /\ paused' = FALSE
    /\ segs' = [i \in SegIdx |->
                  IF segs[i].state = "Paused"
                  THEN [segs[i] EXCEPT !.state = "Pending"] ELSE segs[i]]
    /\ rebalanceTimer' = TRUE /\ progressTimer' = TRUE
    /\ wPaused' = [w \in Workers |-> IF w \in taskWorkers THEN FALSE
                                     ELSE wPaused[w]]
    /\ UNCHANGED mDownloadedBytes
    /\ UNCHANGED <<mainPc, capsValid, supportsRanges, contentLength,
                   totalSize, lastError,
                   probing, taskWorkers>>
    /\ UNCHANGED <<pendingQueue, activeSegments, completedSegments,
                   failedSegments, workerAssignments, workers, workerStats,
                   nextSegmentId, cancelled>>
    /\ UNCHANGED <<wpc, wSeg, wPos, wReqEnd, wStop, wOk, wErr, wAppend,
                   wFilePos, wHandle>>
    /\ UNCHANGED <<fileVars, sigVars, envVars, mgrVars, server, infoVars>>

\* DownloadTask::cancel: stopWorkers() (stop flag, then the worker objects
\* are destroyed while their threads may still run), cancelAll(),
\* cleanupTempFiles()
TaskCancel ==
    /\ mainPc = "idle" /\ cancelsLeft > 0
    /\ cancelsLeft' = cancelsLeft - 1
    /\ taskState' = "Failed" /\ lastError' = "Cancelled"
    /\ wStop' = [w \in Workers |-> IF w \in taskWorkers THEN TRUE
                                   ELSE wStop[w]]
    /\ wPaused' = [w \in Workers |-> IF w \in taskWorkers THEN FALSE
                                     ELSE wPaused[w]]
    /\ taskWorkers' = {}
    /\ cancelled' = TRUE /\ paused' = FALSE
    /\ pendingQueue' = <<>> /\ activeSegments' = {}
    /\ workerAssignments' = [w \in Workers |-> NoSeg]
    /\ rebalanceTimer' = FALSE /\ progressTimer' = FALSE
    /\ tempFiles' = cleanupTempFiles(tempFiles)
    /\ wHandle' = [w \in Workers |-> FALSE]
    /\ UNCHANGED mDownloadedBytes
    /\ UNCHANGED <<mainPc, capsValid, supportsRanges, contentLength,
                   totalSize, probing>>
    /\ UNCHANGED <<segs, completedSegments, failedSegments, workers,
                   workerStats, nextSegmentId>>
    /\ UNCHANGED <<wpc, wSeg, wPos, wReqEnd, wOk, wErr, wAppend, wFilePos>>
    /\ UNCHANGED <<finalFile, finalExists, sigVars, pausesLeft, failuresLeft,
                   markFailedLeft, mgrVars, server, infoVars>>

\* DownloadTask::retry on a Failed task: the error is cleared,
\* SegmentScheduler::reset empties the scheduler and puts the id counter
\* back to 0, the state is set to Queued, and start() follows at once: it
\* probes, or with the capabilities known it runs initializeSegments and
\* startWorkers with new worker objects.  reset() frees the segments, so
\* the retry is taken when no worker of the failed run is running any more.
TaskRetry ==
    /\ mainPc = "idle" /\ taskState = "Failed"
    /\ \A w \in Workers : wpc[w] \in {"none", "done"}
    /\ lastError' = "None"
    /\ activeSegments' = {} /\ completedSegments' = {}
    /\ failedSegments' = {}
    /\ workerAssignments' = [w \in Workers |-> NoSeg]
    /\ workerStats' = [w \in Workers |-> 0]
    /\ paused' = FALSE /\ cancelled' = FALSE
    /\ IF capsValid
       THEN LET segmentCount ==
                   IF ~supportsRanges \/ totalSize <= 0 THEN 1
                   ELSE calculateOptimalSegmentCount(totalSize)
                newSegs == InitializeSegments(totalSize, segmentCount)
                workerCount ==
                   Min(Min(Len(newSegs), PoolLimit), MAX_SEGMENTS)
            IN /\ segs' = newSegs
               /\ pendingQueue' = Range(1, Len(newSegs))
               /\ nextSegmentId' = Len(newSegs)
               /\ taskWorkers' = 1..workerCount
               /\ wpc' = [w \in Workers |->
                            IF w \in 1..workerCount THEN "start"
                            ELSE wpc[w]]
               /\ wStop' = [w \in Workers |->
                              IF w \in 1..workerCount THEN FALSE
                              ELSE wStop[w]]
               /\ wPaused' = [w \in Workers |->
                                IF w \in 1..workerCount THEN FALSE
                                ELSE wPaused[w]]
               /\ taskState' = "Downloading"
               /\ rebalanceTimer' = TRUE /\ progressTimer' = TRUE
               /\ UNCHANGED probing
       ELSE /\ segs' = <<>> /\ pendingQueue' = <<>>
            /\ nextSegmentId' = 0
            /\ taskState' = "Probing" /\ probing' = TRUE
            /\ UNCHANGED <<taskWorkers, wpc, wStop, wPaused, rebalanceTimer,
                           progressTimer>>
    /\ UNCHANGED mDownloadedBytes
    /\ UNCHANGED <<mainPc, capsValid, supportsRanges, contentLength,
                   totalSize, workers>>
    /\ UNCHANGED <<wSeg, wPos, wReqEnd, wOk, wErr, wAppend, wFilePos,
                   wHandle>>
    /\ UNCHANGED <<fileVars, sigVars, envVars, mgrVars, server, infoVars>>

\* DownloadTask::start on a task that is neither Downloading nor Completed
\* (and not the Queued task without capabilities of TaskStart): with the
\* capabilities known it runs initializeSegments, which clears the
\* segments and the collections and sets the id counter to 0 but leaves
\* m_paused and m_cancelled as they are, and startWorkers with new worker
\* objects; otherwise it probes.  m_workers.clear() frees the old worker
\* objects, so the step is taken when none of them is running any more.
TaskStartAgain ==
    /\ mainPc = "idle" /\ taskState \notin {"Downloading", "Completed"}
    /\ ~(taskState = "Queued" /\ ~capsValid) /\ ~probing
    /\ \A w \in Workers : wpc[w] \in {"none", "done"}
    /\ IF capsValid
       THEN LET segmentCount ==
                   IF ~supportsRanges \/ totalSize <= 0 THEN 1
                   ELSE calculateOptimalSegmentCount(totalSize)
                newSegs == InitializeSegments(totalSize, segmentCount)
                workerCount ==
                   Min(Min(Len(newSegs), PoolLimit), MAX_SEGMENTS)
            IN /\ segs' = newSegs
               /\ pendingQueue' = Range(1, Len(newSegs))
               /\ nextSegmentId' = Len(newSegs)
               /\ activeSegments' = {} /\ completedSegments' = {}
               /\ failedSegments' = {}
               /\ taskWorkers' = 1..workerCount
               /\ wpc' = [w \in Workers |->
                            IF w \in 1..workerCount THEN "start"
                            ELSE wpc[w]]
               /\ wStop' = [w \in Workers |->
                              IF w \in 1..workerCount THEN FALSE
                              ELSE wStop[w]]
               /\ wPaused' = [w \in Workers |->
                                IF w \in 1..workerCount THEN FALSE
                                ELSE wPaused[w]]
               /\ taskState' = "Downloading"
               /\ rebalanceTimer' = TRUE /\ progressTimer' = TRUE
               /\ UNCHANGED probing
       ELSE /\ taskState' = "Probing" /\ probing' = TRUE
            /\ UNCHANGED <<segs, pendingQueue, nextSegmentId,
                           activeSegments, completedSegments,
                           failedSegments, taskWorkers, wpc, wStop, wPaused,
                           rebalanceTimer, progressTimer>>
    /\ UNCHANGED mDownloadedBytes
    /\ UNCHANGED <<mainPc, capsValid, supportsRanges, contentLength,
                   totalSize, lastError, workers, workerAssignments,
                   workerStats, paused, cancelled>>
    /\ UNCHANGED <<wSeg, wPos, wReqEnd, wOk, wErr, wAppend, wFilePos,
                   wHandle>>
    /\ UNCHANGED <<fileVars, sigVars, envVars, mgrVars, server, infoVars>>

\* SegmentScheduler::rebalanceSegments (QTimer slot on the task's thread).
\* Slow(w): the worker's throughput is below 50% of the mean throughput of
\* the workers that report a positive throughput.
PositiveStats == {w \in workers : workerStats[w] > 0}
Slow(w) ==
    /\ PositiveStats # {}
    /\ 2 * workerStats[w] * Cardinality(PositiveStats)
           < SumOver(PositiveStats, workerStats)
RebalanceThreshold == MIN_STEAL_SIZE * 2
\* the worker found for a segment is the first match in the pointer-ordered
\* assignment map, so any worker assigned to the segment may be the one
MaySplit(s) ==
    \E w \in Workers : /\ workerAssignments[w] = s /\ w \in workers
                       /\ Slow(w)
                       /\ isSplittable(segs[s], RebalanceThreshold)
MaySkip(s) ==
    \/ \A w \in Workers : workerAssignments[w] # s
    \/ \E w \in Workers : /\ workerAssignments[w] = s
                          /\ ~(/\ w \in workers /\ Slow(w)
                               /\ isSplittable(segs[s], RebalanceThreshold))
RebalanceSegments ==
    /\ mainPc = "idle" /\ rebalanceTimer
    /\ ~paused /\ ~cancelled /\ activeSegments # {}
    /\ \E R \in SUBSET activeSegments :
          /\ R # {}
          /\ \A s \in R : MaySplit(s)
          /\ \A s \in activeSegments \ R : MaySkip(s)
          /\ \E order \in SeqsOf(R) :
                /\ segs' = [i \in SegIdx |->
                              IF i \in R THEN SplitDonor(segs[i])
                              ELSE segs[i]]
                            \o [k \in 1..Len(order) |->
                                  SplitNew(segs[order[k]],
                                           nextSegmentId + k - 1)]
                /\ pendingQueue' = pendingQueue
                                   \o Range(Len(segs) + 1,
                                            Len(segs) + Len(order))
                /\ nextSegmentId' = nextSegmentId + Len(order)
    /\ UNCHANGED <<activeSegments, completedSegments, failedSegments,
                   workerAssignments, workers, workerStats, paused,
                   cancelled, rebalanceTimer>>
    /\ UNCHANGED <<taskVars, workerVars, fileVars, sigVars, envVars,
                   mgrVars, server, infoVars>>

\* SegmentScheduler::totalDownloadedBytes: the sum over the first
\* MAX_SEGMENTS segments, and the sum over every segment
totalDownloadedBytesOfFirst(all) ==
    SumOver(1..Min(Len(all), MAX_SEGMENTS),
            [i \in 1..Len(all) |-> downloadedBytes(all[i])])
totalDownloadedBytes(all) ==
    SumOver(1..Len(all), [i \in 1..Len(all) |-> downloadedBytes(all[i])])

\* DownloadTask::updateStatistics, run by onProgressTimer while the
\* progress timer is on and by onSegmentCompleted for the segmentCompleted
\* signal that is queued to the task's thread for a completed segment
UpdateStatistics ==
    /\ mainPc = "idle" /\ (progressTimer \/ completedSegments # {})
    /\ mDownloadedBytes' = totalDownloadedBytes(segs)
    /\ UNCHANGED <<taskState, mainPc, capsValid, supportsRanges,
                   contentLength, totalSize, lastError, probing,
                   taskWorkers, progressTimer>>
    /\ UNCHANGED <<schedVars, workerVars, fileVars, sigVars, envVars,
                   mgrVars, server, infoVars>>

\* DownloadTask::onSegmentFailed (queued segmentFailed signal)
OnSegmentFailed ==
    /\ mainPc = "idle" /\ events # <<>> /\ Head(events) = "segmentFailed"
    /\ events' = Tail(events)
    /\ IF hasFailed
       THEN lastError' = "Network" /\ taskState' = "Failed"
       ELSE UNCHANGED <<lastError, taskState>>
    /\ UNCHANGED mDownloadedBytes
    /\ UNCHANGED <<mainPc, capsValid, supportsRanges, contentLength,
                   totalSize, probing,
                   taskWorkers, progressTimer, emitted>>
    /\ UNCHANGED <<schedVars, workerVars, fileVars, envVars, mgrVars,
                   server, infoVars>>

\* DownloadTask::onAllSegmentsCompleted, first part: setState(Merging)
OnAllSegmentsCompleted ==
    /\ mainPc = "idle" /\ events # <<>>
    /\ Head(events) = "allSegmentsCompleted"
    /\ events' = Tail(events)
    /\ taskState' = "Merging" /\ progressTimer' = FALSE
    /\ mainPc' = "merging"
    /\ UNCHANGED mDownloadedBytes
    /\ UNCHANGED <<capsValid, supportsRanges, contentLength,
                   totalSize, lastError, probing,
                   taskWorkers, emitted>>
    /\ UNCHANGED <<schedVars, workerVars, fileVars, envVars, mgrVars,
                   server, infoVars>>

\* DownloadTask::mergeSegments: the segments in ascending startByte order
RECURSIVE SortByStart(_)
SortByStart(S) ==
    IF S = {} THEN <<>>
    ELSE LET m == CHOOSE x \in S :
                     \A y \in S : \/ segs[x].start < segs[y].start
                                  \/ /\ segs[x].start = segs[y].start
                                     /\ x <= y
         IN <<m>> \o SortByStart(S \ {m})

RECURSIVE ConcatFiles(_)
ConcatFiles(order) ==
    IF order = <<>> THEN <<>>
    ELSE tempFiles[segs[Head(order)].id] \o ConcatFiles(Tail(order))

MergeReadable ==
    \A i \in SegIdx : segs[i].path /\ segs[i].id \in DOMAIN tempFiles

\* DownloadTask::onAllSegmentsCompleted, second part: mergeSegments(),
\* verifyFile() (warn-only), cleanupTempFiles(), setState(Completed)
MergeAndFinish ==
    /\ mainPc = "merging"
    /\ mainPc' = "idle"
    /\ IF MergeReadable
       THEN /\ finalFile' = ConcatFiles(SortByStart(SegIdx))
            /\ finalExists' = TRUE
            /\ tempFiles' = cleanupTempFiles(tempFiles)
            /\ taskState' = "Completed"
            /\ UNCHANGED lastError
       ELSE /\ finalFile' = <<>> /\ finalExists' = FALSE
            /\ lastError' = "FileSystem" /\ taskState' = "Failed"
            /\ UNCHANGED tempFiles
    /\ UNCHANGED mDownloadedBytes
    /\ UNCHANGED <<capsValid, supportsRanges, contentLength,
                   totalSize, probing,
                   taskWorkers, progressTimer>>
    /\ UNCHANGED <<workerVars, schedVars, sigVars, envVars, mgrVars,
                   server, infoVars>>

\* ------------------------------------------------------------------------
\* SegmentWorker::run, one action per step of the worker thread
\* ------------------------------------------------------------------------
SetSeg(i, f, v) == [segs EXCEPT ![i] = [@ EXCEPT ![f] = v]]

\* SegmentScheduler::unregisterWorker at the end of run()
Unregister(w) ==
    /\ workers' = workers \ {w}
    /\ workerAssignments' = [workerAssignments EXCEPT ![w] = NoSeg]
    /\ workerStats' = [workerStats EXCEPT ![w] = 0]

\* run(): initCurl() and SegmentScheduler::registerWorker
WorkerStart(w) ==
    /\ wpc[w] = "start"
    /\ wpc' = [wpc EXCEPT ![w] = "loop"]
    /\ workers' = workers \cup {w}
    /\ workerStats' = [workerStats EXCEPT ![w] = 0]
    /\ UNCHANGED <<segs, pendingQueue, activeSegments, completedSegments,
                   failedSegments, workerAssignments, nextSegmentId, paused,
                   cancelled, rebalanceTimer>>
    /\ UNCHANGED <<wSeg, wPos, wReqEnd, wStop, wPaused, wOk, wErr, wAppend,
                   wFilePos, wHandle>>
    /\ UNCHANGED <<taskVars, fileVars, sigVars, envVars, mgrVars,
                   server, infoVars>>

\* top of the loop: shouldContinue(), waitWhilePaused(), shouldContinue()
WorkerLoop(w) ==
    /\ wpc[w] = "loop"
    /\ ~wPaused[w] \/ wStop[w]
    /\ IF wStop[w]
       THEN /\ wpc' = [wpc EXCEPT ![w] = "done"]
            /\ Unregister(w)
       ELSE /\ wpc' = [wpc EXCEPT ![w] = "acquire"]
            /\ UNCHANGED <<workers, workerAssignments, workerStats>>
    /\ UNCHANGED <<segs, pendingQueue, activeSegments, completedSegments,
                   failedSegments, nextSegmentId, paused, cancelled,
                   rebalanceTimer>>
    /\ UNCHANGED <<wSeg, wPos, wReqEnd, wStop, wPaused, wOk, wErr, wAppend,
                   wFilePos, wHandle>>
    /\ UNCHANGED <<taskVars, fileVars, sigVars, envVars, mgrVars,
                   server, infoVars>>

\* acquireSegment that hands out pending work whatever m_paused and
\* m_cancelled say
AcquireSegmentUnchecked(w) ==
    /\ wpc[w] = "acquire"
    /\ IF pendingQueue # <<>>
       THEN LET s == Head(pendingQueue) IN
            /\ pendingQueue' = Tail(pendingQueue)
            /\ segs' = SetSeg(s, "state", "Active")
            /\ activeSegments' = activeSegments \cup {s}
            /\ workerAssignments' = [workerAssignments EXCEPT ![w] = s]
            /\ wSeg' = [wSeg EXCEPT ![w] = s]
            /\ wpc' = [wpc EXCEPT ![w] = "open"]
       ELSE /\ wpc' = [wpc EXCEPT ![w] = "steal"]
            /\ UNCHANGED <<segs, pendingQueue, activeSegments, wSeg,
                           workerAssignments>>
    /\ UNCHANGED <<completedSegments, failedSegments, nextSegmentId, paused,
                   cancelled, rebalanceTimer, workers, workerStats>>
    /\ UNCHANGED <<wPos, wReqEnd, wStop, wPaused, wOk, wErr, wAppend,
                   wFilePos, wHandle>>
    /\ UNCHANGED <<taskVars, fileVars, sigVars, envVars, mgrVars,
                   server, infoVars>>
\* SegmentScheduler::acquireSegment up to the point where it releases the
\* lock to call stealWork
AcquireSegment(w) ==
    /\ wpc[w] = "acquire"
    /\ IF paused \/ cancelled
       THEN /\ wpc' = [wpc EXCEPT ![w] = "wait"]
            /\ UNCHANGED <<segs, pendingQueue, activeSegments, wSeg,
                           workerAssignments>>
       ELSE IF pendingQueue # <<>>
       THEN LET s == Head(pendingQueue) IN
            /\ pendingQueue' = Tail(pendingQueue)
            /\ segs' = SetSeg(s, "state", "Active")
            /\ activeSegments' = activeSegments \cup {s}
            /\ workerAssignments' = [workerAssignments EXCEPT ![w] = s]
            /\ wSeg' = [wSeg EXCEPT ![w] = s]
            /\ wpc' = [wpc EXCEPT ![w] = "open"]
       ELSE /\ wpc' = [wpc EXCEPT ![w] = "steal"]
            /\ UNCHANGED <<segs, pendingQueue, activeSegments, wSeg,
                           workerAssignments>>
    /\ UNCHANGED <<completedSegments, failedSegments, nextSegmentId, paused,
                   cancelled, rebalanceTimer, workers, workerStats>>
    /\ UNCHANGED <<wPos, wReqEnd, wStop, wPaused, wOk, wErr, wAppend,
                   wFilePos, wHandle>>
    /\ UNCHANGED <<taskVars, fileVars, sigVars, envVars, mgrVars,
                   server, infoVars>>

\* SegmentScheduler::stealWork
StealWork(w) ==
    /\ wpc[w] = "steal"
    /\ IF paused \/ cancelled \/ LargestActive = {}
       THEN /\ wpc' = [wpc EXCEPT ![w] = "wait"]
            /\ UNCHANGED <<segs, activeSegments, workerAssignments,
                           nextSegmentId, wSeg>>
       ELSE \E largest \in LargestActive :
            LET new == Len(segs) + 1 IN
            /\ segs' = [segs EXCEPT ![largest] = SplitDonor(@)]
                       \o <<[SplitNew(segs[largest], nextSegmentId)
                               EXCEPT !.state = "Active"]>>
            /\ nextSegmentId' = nextSegmentId + 1
            /\ activeSegments' = activeSegments \cup {new}
            /\ workerAssignments' = [workerAssignments EXCEPT ![w] = new]
            /\ wSeg' = [wSeg EXCEPT ![w] = new]
            /\ wpc' = [wpc EXCEPT ![w] = "open"]
    /\ UNCHANGED <<pendingQueue, completedSegments, failedSegments, workers,
                   workerStats, paused, cancelled, rebalanceTimer>>
    /\ UNCHANGED <<wPos, wReqEnd, wStop, wPaused, wOk, wErr, wAppend,
                   wFilePos, wHandle>>
    /\ UNCHANGED <<taskVars, fileVars, sigVars, envVars, mgrVars,
                   server, infoVars>>

\* SegmentScheduler::waitForWork(1 s) and the isAllComplete() test after a
\* timeout
WaitForWork(w) ==
    /\ wpc[w] = "wait"
    /\ IF pendingQueue # <<>> \/ activeSegments # {} \/ cancelled \/ paused
          \/ ~isAllComplete
       THEN /\ wpc' = [wpc EXCEPT ![w] = "loop"]
            /\ UNCHANGED <<workers, workerAssignments, workerStats>>
       ELSE /\ wpc' = [wpc EXCEPT ![w] = "done"]
            /\ Unregister(w)
    /\ UNCHANGED <<segs, pendingQueue, activeSegments, completedSegments,
                   failedSegments, nextSegmentId, paused, cancelled,
                   rebalanceTimer>>
    /\ UNCHANGED <<wSeg, wPos, wReqEnd, wStop, wPaused, wOk, wErr, wAppend,
                   wFilePos, wHandle>>
    /\ UNCHANGED <<taskVars, fileVars, sigVars, envVars, mgrVars,
                   server, infoVars>>

\* configureCurl() hands Segment::rangeHeader(), "bytes=<cur>-<end>", to
\* CURLOPT_RANGE, and libcurl puts "bytes=" in front of the option's value:
\* the request carries "Range: bytes=bytes=<cur>-<end>".  The body the
\* server sends back, as the pair <<first offset, last offset>>:
\*   - "ignoring": the whole body, as does a server without range support;
\*   - "lenient": the range asked for (nothing for an unsatisfiable range:
\*     the body of a 416 is shorter than one block);
\*   - "rejecting": nothing.
Requested(s) ==
    IF s.cur <= s.end THEN <<s.cur, s.end>> ELSE <<s.cur, s.cur - 1>>
\* the length of the body the server holds: what the probe read from
\* Content-Length, or FileLen blocks when the probe found no length
BodyLength == IF contentLength >= 0 THEN contentLength ELSE FileLen
ServerResponse(s) ==
    IF ~supportsRanges \/ server = "ignoring" THEN <<0, BodyLength - 1>>
    ELSE IF server = "lenient" THEN Requested(s)
    ELSE <<s.cur, s.cur - 1>>

\* downloadSegment(): openTempFile() and configureCurl()
OpenTempFile(w) ==
    /\ wpc[w] = "open"
    /\ LET s == wSeg[w]
           id == segs[s].id
       IN \/ \* QFile::open fails: FileSystem error, state left untouched
             /\ failuresLeft > 0
             /\ failuresLeft' = failuresLeft - 1
             /\ segs' = SetSeg(s, "path", TRUE)
             /\ wErr' = [wErr EXCEPT ![w] = "FileSystem"]
             /\ wOk' = [wOk EXCEPT ![w] = FALSE]
             /\ wpc' = [wpc EXCEPT ![w] = "release"]
             /\ UNCHANGED <<wPos, wReqEnd, wAppend, wFilePos, wHandle,
                            tempFiles>>
          \/ /\ segs' = SetSeg(s, "path", TRUE)
             /\ wAppend' = [wAppend EXCEPT ![w] = downloadedBytes(segs[s]) > 0]
             /\ tempFiles' =
                   [i \in (DOMAIN tempFiles) \cup {id} |->
                      IF i = id
                      THEN IF downloadedBytes(segs[s]) > 0
                              /\ id \in DOMAIN tempFiles
                           THEN tempFiles[id] ELSE <<>>
                      ELSE tempFiles[i]]
             /\ wHandle' = [wHandle EXCEPT ![w] = TRUE]
             /\ wFilePos' = [wFilePos EXCEPT ![w] = 0]
             /\ wPos' = [wPos EXCEPT ![w] = ServerResponse(segs[s])[1]]
             /\ wReqEnd' = [wReqEnd EXCEPT ![w] = ServerResponse(segs[s])[2]]
             /\ wErr' = [wErr EXCEPT ![w] = "None"]
             /\ wpc' = [wpc EXCEPT ![w] = "transfer"]
             /\ UNCHANGED <<wOk, failuresLeft>>
    /\ UNCHANGED <<pendingQueue, activeSegments, completedSegments,
                   failedSegments, workerAssignments, workers, workerStats,
                   nextSegmentId, paused, cancelled, rebalanceTimer>>
    /\ UNCHANGED <<wSeg, wStop, wPaused>>
    /\ UNCHANGED <<taskVars, finalFile, finalExists, sigVars, pausesLeft,
                   cancelsLeft, markFailedLeft, mgrVars, server, infoVars>>

\* SegmentWorker::writeCallback for one block of the response body.  With
\* the worker's file closed it returns 0: curl ends the transfer with a
\* write error, which handleCurlError() maps to Unknown.
WriteCallback(w) ==
    /\ wpc[w] = "transfer" /\ wPos[w] <= wReqEnd[w]
    /\ LET s == wSeg[w]
           id == segs[s].id
       IN IF wHandle[w]
          THEN /\ tempFiles' =
                     IF id \in DOMAIN tempFiles
                     THEN [tempFiles EXCEPT ![id] =
                             IF wAppend[w] THEN Append(@, wPos[w])
                             ELSE WriteAt(@, wFilePos[w], wPos[w])]
                     ELSE tempFiles
               /\ segs' = SetSeg(s, "cur", segs[s].cur + 1)
               /\ wFilePos' = [wFilePos EXCEPT ![w] = @ + 1]
               /\ wPos' = [wPos EXCEPT ![w] = @ + 1]
               /\ IF w \in workers
                  THEN \E v \in Speeds :
                          workerStats' = [workerStats EXCEPT ![w] = v]
                  ELSE UNCHANGED workerStats
               /\ UNCHANGED <<wpc, wOk, wErr>>
          ELSE /\ segs' = SetSeg(s, "state", "Failed")
               /\ wErr' = [wErr EXCEPT ![w] = "Unknown"]
               /\ wOk' = [wOk EXCEPT ![w] = FALSE]
               /\ wpc' = [wpc EXCEPT ![w] = "release"]
               /\ UNCHANGED <<tempFiles, wFilePos, wPos, workerStats>>
    /\ UNCHANGED <<pendingQueue, activeSegments, completedSegments,
                   failedSegments, workerAssignments, workers,
                   nextSegmentId, paused, cancelled, rebalanceTimer>>
    /\ UNCHANGED <<wSeg, wReqEnd, wStop, wPaused, wAppend, wHandle>>
    /\ UNCHANGED <<taskVars, finalFile, finalExists, sigVars, envVars,
                   mgrVars, server, infoVars>>

\* curl_easy_perform returns an error: handleCurlError(), setState(Failed)
TransferFailed(w) ==
    /\ wpc[w] = "transfer" /\ failuresLeft > 0
    /\ failuresLeft' = failuresLeft - 1
    /\ \E c \in CurlCategories : wErr' = [wErr EXCEPT ![w] = c]
    /\ segs' = SetSeg(wSeg[w], "state", "Failed")
    /\ wOk' = [wOk EXCEPT ![w] = FALSE]
    /\ wHandle' = [wHandle EXCEPT ![w] = FALSE]
    /\ wpc' = [wpc EXCEPT ![w] = "release"]
    /\ UNCHANGED <<pendingQueue, activeSegments, completedSegments,
                   failedSegments, workerAssignments, workers, workerStats,
                   nextSegmentId, paused, cancelled, rebalanceTimer>>
    /\ UNCHANGED <<wSeg, wPos, wReqEnd, wStop, wPaused, wAppend, wFilePos>>
    /\ UNCHANGED <<taskVars, fileVars, sigVars, pausesLeft, cancelsLeft,
                   markFailedLeft, mgrVars, server, infoVars>>

\* progressCallback returns 1 (stop or pause requested):
\* CURLE_ABORTED_BY_CALLBACK
TransferAborted(w) ==
    /\ wpc[w] = "transfer" /\ (wStop[w] \/ wPaused[w])
    /\ segs' = IF wStop[w] THEN segs
               ELSE SetSeg(wSeg[w], "state", "Paused")
    /\ wOk' = [wOk EXCEPT ![w] = FALSE]
    /\ wErr' = [wErr EXCEPT ![w] = "None"]
    /\ wHandle' = [wHandle EXCEPT ![w] = FALSE]
    /\ wpc' = [wpc EXCEPT ![w] = "release"]
    /\ UNCHANGED <<pendingQueue, activeSegments, completedSegments,
                   failedSegments, workerAssignments, workers, workerStats,
                   nextSegmentId, paused, cancelled, rebalanceTimer>>
    /\ UNCHANGED <<wSeg, wPos, wReqEnd, wStop, wPaused, wAppend, wFilePos>>
    /\ UNCHANGED <<taskVars, fileVars, sigVars, envVars, mgrVars,
                   server, infoVars>>

\* curl_easy_perform returns CURLE_OK: the expected/actual test of
\* downloadSegment(), and setState(Completed) in run() on success
TransferDone(w) ==
    /\ wpc[w] = "transfer" /\ wPos[w] > wReqEnd[w]
    /\ LET s == wSeg[w]
           expected == segs[s].end - segs[s].start + 1
           actual == downloadedBytes(segs[s])
       IN IF actual < expected
          THEN /\ segs' = SetSeg(s, "state", "Failed")
               /\ wOk' = [wOk EXCEPT ![w] = FALSE]
          ELSE /\ segs' = SetSeg(s, "state", "Completed")
               /\ wOk' = [wOk EXCEPT ![w] = TRUE]
    /\ wErr' = [wErr EXCEPT ![w] = "None"]
    /\ wHandle' = [wHandle EXCEPT ![w] = FALSE]
    /\ wpc' = [wpc EXCEPT ![w] = "release"]
    /\ UNCHANGED <<pendingQueue, activeSegments, completedSegments,
                   failedSegments, workerAssignments, workers, workerStats,
                   nextSegmentId, paused, cancelled, rebalanceTimer>>
    /\ UNCHANGED <<wSeg, wPos, wReqEnd, wStop, wPaused, wAppend, wFilePos>>
    /\ UNCHANGED <<taskVars, fileVars, sigVars, envVars, mgrVars,
                   server, infoVars>>

\* where run() goes after releaseSegment: break on a failed transfer of a
\* stopped worker, otherwise the top of the loop
AfterRelease(w) == IF ~wOk[w] /\ wStop[w] THEN "exit" ELSE "loop"

\* std::deque::push_back in the place of push_front
push_back(queue, s) == queue \o <<s>>
\* std::deque::push_front, as releaseSegment calls it for a Paused segment
push_front(queue, s) == <<s>> \o queue

\* SegmentScheduler::releaseSegment, the part under the lock.  The locals
\* of the finished downloadSegment() call are dead afterwards and are reset.
ReleaseSegment(w) ==
    /\ wpc[w] = "release"
    /\ LET s == wSeg[w]
           st == segs[s].state
       IN /\ activeSegments' = activeSegments \ {s}
          /\ workerAssignments' = [workerAssignments EXCEPT ![w] = NoSeg]
          /\ CASE st = "Completed" ->
                    /\ completedSegments' = completedSegments \cup {s}
                    /\ wpc' = [wpc EXCEPT ![w] = "check"]
                    /\ UNCHANGED <<segs, pendingQueue, failedSegments,
                                   events>>
               [] st = "Failed" /\ canRetry(segs[s]) ->
                    /\ segs' = SetSeg(s, "state", "Pending")
                    /\ pendingQueue' = Append(pendingQueue, s)
                    /\ wpc' = [wpc EXCEPT ![w] = AfterRelease(w)]
                    /\ UNCHANGED <<completedSegments, failedSegments, events>>
               [] st = "Failed" /\ ~canRetry(segs[s]) ->
                    /\ failedSegments' = failedSegments \cup {s}
                    /\ events' = Append(events, "segmentFailed")
                    /\ wpc' = [wpc EXCEPT ![w] = AfterRelease(w)]
                    /\ UNCHANGED <<segs, pendingQueue, completedSegments>>
               [] st = "Paused" ->
                    /\ pendingQueue' = push_front(pendingQueue, s)
                    /\ wpc' = [wpc EXCEPT ![w] = AfterRelease(w)]
                    /\ UNCHANGED <<segs, completedSegments, failedSegments,
                                   events>>
               [] OTHER ->
                    /\ segs' = SetSeg(s, "state", "Pending")
                    /\ pendingQueue' = Append(pendingQueue, s)
                    /\ wpc' = [wpc EXCEPT ![w] = AfterRelease(w)]
                    /\ UNCHANGED <<completedSegments, failedSegments, events>>
    /\ wSeg' = [wSeg EXCEPT ![w] = NoSeg]
    /\ wOk' = [wOk EXCEPT ![w] = FALSE]
    /\ wErr' = [wErr EXCEPT ![w] = "None"]
    /\ wPos' = [wPos EXCEPT ![w] = 0]
    /\ wReqEnd' = [wReqEnd EXCEPT ![w] = 0]
    /\ wAppend' = [wAppend EXCEPT ![w] = FALSE]
    /\ wFilePos' = [wFilePos EXCEPT ![w] = 0]
    /\ UNCHANGED <<workers, workerStats, nextSegmentId, paused, cancelled,
                   rebalanceTimer>>
    /\ UNCHANGED <<wStop, wPaused, wHandle>>
    /\ UNCHANGED <<taskVars, fileVars, emitted, envVars, mgrVars,
                   server, infoVars>>

\* SegmentScheduler::checkAllComplete, called by releaseSegment after it
\* has dropped the lock
CheckAllComplete(w) ==
    /\ wpc[w] = "check"
    /\ IF isAllComplete
       THEN /\ events' = Append(events, "allSegmentsCompleted")
            /\ emitted' = emitted + 1
       ELSE UNCHANGED <<events, emitted>>
    \* only a successful transfer gets here, so run() goes round the loop
    /\ wpc' = [wpc EXCEPT ![w] = "loop"]
    /\ UNCHANGED <<wSeg, wPos, wReqEnd, wStop, wPaused, wOk, wErr, wAppend,
                   wFilePos, wHandle>>
    /\ UNCHANGED <<taskVars, schedVars, fileVars, envVars, mgrVars,
                   server, infoVars>>

\* SegmentScheduler::markFailed, called by the worker that holds the segment
\* to report a failed transfer, in place of releaseSegment.  The worker's
\* assignment is left in the map.
MarkFailed(w) ==
    /\ wpc[w] = "transfer" /\ markFailedLeft > 0
    /\ markFailedLeft' = markFailedLeft - 1
    /\ LET s == wSeg[w]
           counted == [segs[s] EXCEPT !.retry = @ + 1]
       IN /\ activeSegments' = activeSegments \ {s}
          /\ IF canRetry(counted)
             THEN /\ segs' = [segs EXCEPT ![s] =
                                [counted EXCEPT !.state = "Pending"]]
                  /\ pendingQueue' = Append(pendingQueue, s)
                  /\ UNCHANGED <<failedSegments, events>>
             ELSE /\ segs' = [segs EXCEPT ![s] =
                                [counted EXCEPT !.state = "Failed"]]
                  /\ failedSegments' = failedSegments \cup {s}
                  /\ events' = Append(events, "segmentFailed")
                  /\ UNCHANGED pendingQueue
    /\ wpc' = [wpc EXCEPT ![w] = "loop"]
    /\ wSeg' = [wSeg EXCEPT ![w] = NoSeg]
    /\ wHandle' = [wHandle EXCEPT ![w] = FALSE]
    /\ wOk' = [wOk EXCEPT ![w] = FALSE]
    /\ wErr' = [wErr EXCEPT ![w] = "None"]
    /\ wPos' = [wPos EXCEPT ![w] = 0]
    /\ wReqEnd' = [wReqEnd EXCEPT ![w] = 0]
    /\ wAppend' = [wAppend EXCEPT ![w] = FALSE]
    /\ wFilePos' = [wFilePos EXCEPT ![w] = 0]
    /\ UNCHANGED <<completedSegments, workerAssignments, workers,
                   workerStats, nextSegmentId, paused, cancelled,
                   rebalanceTimer>>
    /\ UNCHANGED <<wStop, wPaused>>
    /\ UNCHANGED <<taskVars, fileVars, emitted, pausesLeft, failuresLeft,
                   cancelsLeft, mgrVars, server, infoVars>>

\* end of run(): unregisterWorker after the break out of the loop
WorkerExit(w) ==
    /\ wpc[w] = "exit"
    /\ wpc' = [wpc EXCEPT ![w] = "done"]
    /\ Unregister(w)
    /\ UNCHANGED <<segs, pendingQueue, activeSegments, completedSegments,
                   failedSegments, nextSegmentId, paused, cancelled,
                   rebalanceTimer>>
    /\ UNCHANGED <<wSeg, wPos, wReqEnd, wStop, wPaused, wOk, wErr, wAppend,
                   wFilePos, wHandle>>
    /\ UNCHANGED <<taskVars, fileVars, sigVars, envVars, mgrVars,
                   server, infoVars>>

\* ------------------------------------------------------------------------
\* DownloadManager.  A task is seen through its state, whether its server
\* capabilities are known, and whether a probe of it is in flight; mTasks is
\* the task map in iteration order.  stateChanged reaches the manager
\* synchronously, so every operation below ends with the counts and the
\* queue as onTaskStateChanged leaves them.
\* ------------------------------------------------------------------------
ActiveStates == {"Downloading", "Probing", "Merging", "Verifying"}

\* DownloadManager::updateCounts: the active count it stores
updateCounts(tasks) ==
    Cardinality({i \in DOMAIN tasks : tasks[i].state \in ActiveStates})

canStartMore(tasks, max) == updateCounts(tasks) < max

\* DownloadTask::start / pause / resume / cancel / retry on a task record;
\* segs is what the task's scheduler holds, initializeSegments building
\* it for the file of MIN_SEGMENT_SIZE blocks that every task of the
\* manager downloads from a range server
startTask(t) ==
    IF t.state \in {"Downloading", "Completed"} THEN t
    ELSE IF t.caps
         THEN [t EXCEPT
                 !.state = "Downloading",
                 !.segs = InitializeSegments(MIN_SEGMENT_SIZE,
                     calculateOptimalSegmentCount(MIN_SEGMENT_SIZE))]
    ELSE [t EXCEPT !.state = "Probing", !.probing = TRUE]
pauseTask(t) ==
    IF t.state = "Downloading"
    THEN [t EXCEPT !.state = "Paused",
                   !.segs = [k \in DOMAIN t.segs |->
                               IF t.segs[k].state = "Active"
                               THEN [t.segs[k] EXCEPT !.state = "Paused"]
                               ELSE t.segs[k]]]
    ELSE t
resumeTask(t) ==
    IF t.state = "Paused"
    THEN [t EXCEPT !.state = "Downloading",
                   !.segs = [k \in DOMAIN t.segs |->
                               IF t.segs[k].state = "Paused"
                               THEN [t.segs[k] EXCEPT !.state = "Pending"]
                               ELSE t.segs[k]]]
    ELSE t
cancelTask(t) == [t EXCEPT !.state = "Failed"]
retryTask(t) ==
    IF t.state = "Failed"
    THEN startTask([t EXCEPT !.state = "Queued", !.segs = <<>>])
    ELSE t

\* DownloadManager::processQueue: the queued tasks, sorted by descending
\* priority (tasks of equal priority stay in map order), are started while
\* there is capacity
RECURSIVE processQueueInMapOrder(_, _)
RECURSIVE processQueue(_, _)
processQueueInMapOrder(tasks, max) ==
    LET queued == {i \in DOMAIN tasks : tasks[i].state = "Queued"} IN
    IF ~canStartMore(tasks, max) \/ queued = {} THEN tasks
    ELSE LET i == CHOOSE q \in queued : \A r \in queued : q <= r
         IN processQueueInMapOrder([tasks EXCEPT ![i] = startTask(@)], max)
processQueue(tasks, max) ==
    LET queued == {i \in DOMAIN tasks : tasks[i].state = "Queued"} IN
    IF ~canStartMore(tasks, max) \/ queued = {} THEN tasks
    ELSE LET i == CHOOSE q \in queued : \A r \in queued :
                     \/ tasks[q].priority > tasks[r].priority
                     \/ tasks[q].priority = tasks[r].priority /\ q <= r
         IN processQueue([tasks EXCEPT ![i] = startTask(@)], max)

\* DownloadManager::onTaskStateChanged after task i went from state old to
\* its present state: processQueue on Paused, Completed and Failed
onTaskStateChanged(tasks, i, old, max) ==
    IF tasks[i].state # old
       /\ tasks[i].state \in {"Paused", "Completed", "Failed"}
    THEN processQueue(tasks, max)
    ELSE tasks

\* one task operation op applied to task i, and the manager's reaction
applyTo(tasks, i, op(_), max) ==
    onTaskStateChanged([tasks EXCEPT ![i] = op(@)], i, tasks[i].state, max)

InState(tasks, st) == {i \in DOMAIN tasks : tasks[i].state = st}

\* DownloadManager::pauseAll / resumeAll / startAll over the snapshot todo
RECURSIVE pauseEach(_, _, _)
pauseEach(tasks, todo, max) ==
    IF todo = {} THEN tasks
    ELSE LET i == CHOOSE q \in todo : \A r \in todo : q <= r
         IN pauseEach(applyTo(tasks, i, pauseTask, max), todo \ {i}, max)
RECURSIVE resumeEach(_, _, _)
resumeEach(tasks, todo, max) ==
    IF todo = {} THEN tasks
    ELSE LET i == CHOOSE q \in todo : \A r \in todo : q <= r
             next == IF canStartMore(tasks, max)
                     THEN applyTo(tasks, i, resumeTask, max) ELSE tasks
         IN resumeEach(next, todo \ {i}, max)
RECURSIVE startEach(_, _, _)
startEach(tasks, todo, max) ==
    IF todo = {} THEN tasks
    ELSE LET i == CHOOSE q \in todo : \A r \in todo : q <= r
             next == IF canStartMore(tasks, max)
                     THEN applyTo(tasks, i, startTask, max) ELSE tasks
         IN startEach(next, todo \ {i}, max)

\* every manager action leaves the stored count as updateCounts computes it
Counted(max) ==
    /\ mMaxConcurrent' = max
    /\ mActiveCount' = updateCounts(mTasks')
    /\ UNCHANGED <<taskVars, schedVars, workerVars, fileVars, sigVars,
                   envVars, server, infoVars, addOutcome, removedTask,
                   writeQueue,
                   running, dbOpen, wtPc, wtReq, closePc, downloadsTable,
                   segmentsTable, settingsTable>>

\* a task as its constructor leaves it; priority is the value of the enum
\* Priority (Low = 0, Normal = 1, High = 2, Urgent = 3)
NewTask ==
    [state |-> "Queued", caps |-> FALSE, probing |-> FALSE, segs |-> <<>>,
     priority |-> 1]
InsertAt(tasks, pos, t) ==
    [k \in 1..(Len(tasks) + 1) |->
        IF k < pos THEN tasks[k] ELSE IF k = pos THEN t ELSE tasks[k - 1]]

\* DownloadManager::addDownload; the new id may sort anywhere in the map
addDownload(pos, startImmediately) ==
    /\ Len(mTasks) < MaxTasks /\ pos <= Len(mTasks) + 1
    /\ LET added == InsertAt(mTasks, pos, NewTask) IN
       mTasks' = IF startImmediately /\ canStartMore(added, mMaxConcurrent)
                 THEN applyTo(added, pos, startTask, mMaxConcurrent)
                 ELSE added
    /\ Counted(mMaxConcurrent)

startDownload(i) ==
    /\ i \in DOMAIN mTasks /\ canStartMore(mTasks, mMaxConcurrent)
    /\ mTasks' = applyTo(mTasks, i, startTask, mMaxConcurrent)
    /\ Counted(mMaxConcurrent)

pauseDownload(i) ==
    /\ i \in DOMAIN mTasks
    /\ mTasks' = applyTo(mTasks, i, pauseTask, mMaxConcurrent)
    /\ Counted(mMaxConcurrent)

resumeDownload(i) ==
    /\ i \in DOMAIN mTasks /\ canStartMore(mTasks, mMaxConcurrent)
    /\ mTasks' = applyTo(mTasks, i, resumeTask, mMaxConcurrent)
    /\ Counted(mMaxConcurrent)

cancelDownload(i) ==
    /\ i \in DOMAIN mTasks
    /\ mTasks' = applyTo(mTasks, i, cancelTask, mMaxConcurrent)
    /\ Counted(mMaxConcurrent)

retryDownload(i) ==
    /\ i \in DOMAIN mTasks /\ canStartMore(mTasks, mMaxConcurrent)
    /\ mTasks' = applyTo(mTasks, i, retryTask, mMaxConcurrent)
    /\ Counted(mMaxConcurrent)

pauseAll ==
    /\ mTasks' = pauseEach(mTasks, InState(mTasks, "Downloading"),
                           mMaxConcurrent)
    /\ Counted(mMaxConcurrent)

resumeAll ==
    /\ mTasks' = resumeEach(mTasks, InState(mTasks, "Paused"),
                            mMaxConcurrent)
    /\ Counted(mMaxConcurrent)

startAll ==
    /\ mTasks' = startEach(mTasks, InState(mTasks, "Queued"),
                           mMaxConcurrent)
    /\ Counted(mMaxConcurrent)

\* DownloadManager::setMaxConcurrentDownloads
setMaxConcurrentDownloads(n) ==
    LET count == Clamp(n, MinConcurrent, MaxConcurrentLimit) IN
    /\ mMaxConcurrent # count
    /\ mTasks' = processQueue(mTasks, count)
    /\ Counted(count)

\* what the tasks do on their own: a probe answers or fails, a download
\* finishes (Merging, Verifying, Completed in one handler) or fails
probeCompletedTask(t) ==
    [t EXCEPT !.probing = FALSE, !.caps = TRUE, !.state = "Downloading",
              !.segs = InitializeSegments(MIN_SEGMENT_SIZE,
                  calculateOptimalSegmentCount(MIN_SEGMENT_SIZE))]
probeFailedTask(t) == [t EXCEPT !.probing = FALSE, !.state = "Failed"]
completedTask(t) == [t EXCEPT !.state = "Completed"]

taskProbeCompleted(i) ==
    /\ i \in DOMAIN mTasks /\ mTasks[i].probing
    /\ mTasks' = applyTo(mTasks, i, probeCompletedTask, mMaxConcurrent)
    /\ Counted(mMaxConcurrent)

taskProbeFailed(i) ==
    /\ i \in DOMAIN mTasks /\ mTasks[i].probing
    /\ mTasks' = applyTo(mTasks, i, probeFailedTask, mMaxConcurrent)
    /\ Counted(mMaxConcurrent)

taskCompleted(i) ==
    /\ i \in DOMAIN mTasks /\ mTasks[i].state = "Downloading"
    /\ mTasks' = applyTo(mTasks, i, completedTask, mMaxConcurrent)
    /\ Counted(mMaxConcurrent)

taskFailed(i) ==
    /\ i \in DOMAIN mTasks /\ mTasks[i].state = "Downloading"
    /\ mTasks' = applyTo(mTasks, i, cancelTask, mMaxConcurrent)
    /\ Counted(mMaxConcurrent)

\* DownloadTask::setPriority on task i
setPriority(i, p) ==
    /\ i \in DOMAIN mTasks /\ mTasks[i].priority # p
    /\ mTasks' = [mTasks EXCEPT ![i].priority = p]
    /\ Counted(mMaxConcurrent)

\* the timeout of m_queueTimer, connected to processQueue
onQueueTimer ==
    /\ mTasks' = processQueue(mTasks, mMaxConcurrent)
    /\ Counted(mMaxConcurrent)

\* the values a caller passes to setMaxConcurrentDownloads
ConcurrentInputs ==
    {MinConcurrent - 1, MinConcurrent, MinConcurrent + 1,
     DEFAULT_CONCURRENT_DOWNLOADS, MaxConcurrentLimit + 1}

TaskIds == 1..MaxTasks

ManagerNext ==
    \/ \E pos \in TaskIds, now \in BOOLEAN : addDownload(pos, now)
    \/ \E i \in TaskIds :
          \/ startDownload(i) \/ pauseDownload(i) \/ resumeDownload(i)
          \/ cancelDownload(i) \/ retryDownload(i)
          \/ taskProbeCompleted(i) \/ taskProbeFailed(i)
          \/ taskCompleted(i) \/ taskFailed(i)
    \/ pauseAll
    \/ resumeAll
    \/ startAll
    \/ \E n \in ConcurrentInputs : setMaxConcurrentDownloads(n)

\* tasks that are added unstarted, given priorities, and started by
\* processQueue alone
PriorityNext ==
    \/ \E pos \in TaskIds : addDownload(pos, FALSE)
    \/ \E i \in TaskIds :
          \/ \E p \in 0..3 : setPriority(i, p)
          \/ pauseDownload(i)
          \/ cancelDownload(i)
          \/ taskProbeCompleted(i)
          \/ taskCompleted(i)
    \/ onQueueTimer
    \/ \E n \in ConcurrentInputs : setMaxConcurrentDownloads(n)

\* ------------------------------------------------------------------------
\* PersistenceManager.  A write is a request [op, id, data] handed to the
\* write thread through writeQueue.  downloadsTable has for each task id
\* its row [url, state], or <<>> when there is none; segmentsTable has for
\* each task id its segment rows, which are segment snapshots, in the
\* order of their ids; settingsTable is the sequence of the rows
\* <<key, value>>.
\* ------------------------------------------------------------------------

\* PersistenceManager::saveTask: the requests it enqueues for task t
saveTask(t) ==
    <<[op |-> "SaveTask", id |-> t.id,
       data |-> [url |-> t.url, state |-> t.state]]>>
    \o [k \in DOMAIN t.segs |->
          [op |-> "SaveSegment", id |-> t.id, data |-> t.segs[k]]]

\* PersistenceManager::enqueueWrite for each request of reqs: the queue
\* mutex is taken (the write thread holds it until it blocks), the request
\* is pushed and one waiter is notified
enqueueWrite(reqs) ==
    /\ wtPc # "prewait"
    /\ writeQueue' = writeQueue \o reqs
    /\ wtPc' = IF wtPc = "waiting" /\ reqs # <<>> THEN "lock" ELSE wtPc

\* processWrite.  doSaveTask is INSERT OR REPLACE INTO downloads: replacing
\* a row deletes the old one, and the segment rows that reference it go
\* with it (ON DELETE CASCADE, foreign_keys = ON).  doSaveSegment is INSERT
\* OR REPLACE INTO segments, which fails on the foreign key when the task
\* has no downloads row.  doDeleteTask deletes the task's segment rows and
\* its downloads row.  doSaveSetting is INSERT OR REPLACE INTO settings.
processWrite(req) ==
    CASE req.op = "SaveTask" ->
           /\ downloadsTable' = [downloadsTable EXCEPT ![req.id] = req.data]
           /\ segmentsTable' = [segmentsTable EXCEPT ![req.id] = <<>>]
           /\ UNCHANGED settingsTable
      [] req.op = "SaveSegment" ->
           /\ segmentsTable' =
                 IF downloadsTable[req.id] # <<>>
                 THEN LET rows == segmentsTable[req.id]
                          below(r) == r.id < req.data.id
                          above(r) == r.id > req.data.id
                      IN [segmentsTable EXCEPT ![req.id] =
                            SelectSeq(rows, below) \o <<req.data>>
                            \o SelectSeq(rows, above)]
                 ELSE segmentsTable
           /\ UNCHANGED <<downloadsTable, settingsTable>>
      [] req.op = "DeleteTask" ->
           /\ segmentsTable' = [segmentsTable EXCEPT ![req.id] = <<>>]
           /\ downloadsTable' = [downloadsTable EXCEPT ![req.id] = <<>>]
           /\ UNCHANGED settingsTable
      [] req.op = "SaveSetting" ->
           /\ LET other(r) == r[1] # req.data[1]
              IN settingsTable' =
                    SelectSeq(settingsTable, other) \o <<req.data>>
           /\ UNCHANGED <<downloadsTable, segmentsTable>>

\* writeThreadLoop, the loop condition: m_running || !m_writeQueue.empty()
\* the condition without its second half
writerContinuesWhileRunning(run, queue) == run
writerContinues(run, queue) == run \/ queue # <<>>

writeThreadTop ==
    /\ wtPc = "top"
    /\ wtPc' = IF writerContinues(running, writeQueue) THEN "lock"
               ELSE "exit"
    /\ UNCHANGED <<writeQueue, running, dbOpen, wtReq, closePc,
                   downloadsTable, segmentsTable, settingsTable>>
    /\ UNCHANGED <<taskVars, schedVars, workerVars, fileVars, sigVars,
                   envVars, server, infoVars, mTasks, mMaxConcurrent,
                   mActiveCount,
                   addOutcome, removedTask>>

\* writeThreadLoop, the lock and the wait predicate
\* (!m_writeQueue.empty() || !m_running): a true predicate goes on to the
\* pop, or back to the loop condition when the queue is empty; a false one
\* leaves the thread about to block, the mutex still held
writeThreadLock ==
    /\ wtPc = "lock"
    /\ IF writeQueue # <<>>
       THEN /\ wtReq' = Head(writeQueue)
            /\ writeQueue' = Tail(writeQueue)
            /\ wtPc' = "process"
       ELSE /\ wtPc' = IF running THEN "prewait" ELSE "top"
            /\ UNCHANGED <<writeQueue, wtReq>>
    /\ UNCHANGED <<running, dbOpen, closePc, downloadsTable, segmentsTable,
                   settingsTable>>
    /\ UNCHANGED <<taskVars, schedVars, workerVars, fileVars, sigVars,
                   envVars, server, infoVars, mTasks, mMaxConcurrent,
                   mActiveCount,
                   addOutcome, removedTask>>

\* condition_variable::wait releases the mutex and blocks
writeThreadWait ==
    /\ wtPc = "prewait"
    /\ wtPc' = "waiting"
    /\ UNCHANGED <<writeQueue, running, dbOpen, wtReq, closePc,
                   downloadsTable, segmentsTable, settingsTable>>
    /\ UNCHANGED <<taskVars, schedVars, workerVars, fileVars, sigVars,
                   envVars, server, infoVars, mTasks, mMaxConcurrent,
                   mActiveCount,
                   addOutcome, removedTask>>

\* writeThreadLoop, processWrite outside the lock
writeThreadProcess ==
    /\ wtPc = "process"
    /\ processWrite(wtReq)
    /\ wtReq' = NoReq /\ wtPc' = "top"
    /\ UNCHANGED <<writeQueue, running, dbOpen, closePc>>
    /\ UNCHANGED <<taskVars, schedVars, workerVars, fileVars, sigVars,
                   envVars, server, infoVars, mTasks, mMaxConcurrent,
                   mActiveCount,
                   addOutcome, removedTask>>

\* PersistenceManager::close, run by the destructor: m_running is cleared
\* without the queue mutex
closeStop ==
    /\ closePc = "close"
    /\ running' = FALSE
    /\ closePc' = IF running THEN "notify" ELSE "closing"
    /\ UNCHANGED <<writeQueue, dbOpen, wtPc, wtReq, downloadsTable,
                   segmentsTable, settingsTable>>
    /\ UNCHANGED <<taskVars, schedVars, workerVars, fileVars, sigVars,
                   envVars, server, infoVars, mTasks, mMaxConcurrent,
                   mActiveCount,
                   addOutcome, removedTask>>
\* notify_all wakes the write thread only if it is blocked already
closeNotify ==
    /\ closePc = "notify"
    /\ wtPc' = IF wtPc = "waiting" THEN "lock" ELSE wtPc
    /\ closePc' = "join"
    /\ UNCHANGED <<writeQueue, running, dbOpen, wtReq, downloadsTable,
                   segmentsTable, settingsTable>>
    /\ UNCHANGED <<taskVars, schedVars, workerVars, fileVars, sigVars,
                   envVars, server, infoVars, mTasks, mMaxConcurrent,
                   mActiveCount,
                   addOutcome, removedTask>>
\* join returns once the write thread has left its loop; the database is
\* closed after it
closeJoin ==
    /\ \/ closePc = "join" /\ wtPc = "exit"
       \/ closePc = "closing"
    /\ dbOpen' = FALSE /\ closePc' = "closed"
    /\ UNCHANGED <<writeQueue, running, wtPc, wtReq, downloadsTable,
                   segmentsTable, settingsTable>>
    /\ UNCHANGED <<taskVars, schedVars, workerVars, fileVars, sigVars,
                   envVars, server, infoVars, mTasks, mMaxConcurrent,
                   mActiveCount,
                   addOutcome, removedTask>>

\* ------------------------------------------------------------------------
\* DownloadManager with its PersistenceManager.  The tasks carry their id
\* and their URL here; ids are the values of TaskIds, and the map is kept
\* in id order.  A URL is a short string, QUrl::isValid is being non-empty,
\* and QUrl::toString and QUrl(QString) are inverse to each other on the
\* URLs used.
\* ------------------------------------------------------------------------
StoredTask(id, url) ==
    [id |-> id, url |-> url, state |-> NewTask.state, caps |-> NewTask.caps,
     probing |-> NewTask.probing, segs |-> NewTask.segs,
     priority |-> NewTask.priority]

\* DownloadManager::findByUrl: the ids of the tasks with this URL
findByUrlAmongQueued(tasks, url) ==
    {tasks[k].id : k \in {j \in DOMAIN tasks :
                            tasks[j].url = url /\ tasks[j].state = "Queued"}}
findByUrl(tasks, url) ==
    {tasks[k].id : k \in {j \in DOMAIN tasks : tasks[j].url = url}}

\* what every handler of the manager does around its change of mTasks: it
\* runs while the manager lives (and, to keep the queue bounded, while at
\* most MaxQueued requests are pending), its writes reqs go through
\* enqueueWrite, and the counts are as updateCounts leaves them
Handled(reqs) ==
    /\ closePc = "idle"
    /\ Len(writeQueue) <= MaxQueued
    /\ enqueueWrite(reqs)
    /\ mMaxConcurrent' = mMaxConcurrent
    /\ mActiveCount' = updateCounts(mTasks')
    /\ UNCHANGED <<running, dbOpen, wtReq, closePc, downloadsTable,
                   segmentsTable, settingsTable>>
    /\ UNCHANGED <<taskVars, schedVars, workerVars, fileVars, sigVars,
                   envVars, server, infoVars>>

\* DownloadManager::addDownload with url, the new task taking the unused
\* id
addDownloadOf(url, id, startImmediately) ==
    /\ IF url = ""
       THEN /\ addOutcome' = [id |-> 0, warning |-> "Invalid URL"]
            /\ mTasks' = mTasks
            /\ Handled(<<>>)
       ELSE IF findByUrl(mTasks, url) # {}
       THEN /\ addOutcome' =
                  [id |-> CHOOSE e \in findByUrl(mTasks, url) : TRUE,
                   warning |-> "URL already exists"]
            /\ mTasks' = mTasks
            /\ Handled(<<>>)
       ELSE /\ Len(mTasks) < MaxStored
            /\ id \notin {mTasks[k].id : k \in DOMAIN mTasks}
            /\ downloadsTable[id] = <<>>
            /\ \A k \in DOMAIN writeQueue : writeQueue[k].id # id
            /\ wtReq.id # id
            /\ addOutcome' = [id |-> id, warning |-> ""]
            /\ LET pos == 1 + Cardinality({k \in DOMAIN mTasks :
                                              mTasks[k].id < id})
                   added == InsertAt(mTasks, pos, StoredTask(id, url))
               IN /\ mTasks' =
                        IF startImmediately
                           /\ canStartMore(added, mMaxConcurrent)
                        THEN applyTo(added, pos, startTask, mMaxConcurrent)
                        ELSE added
                  /\ Handled(saveTask(added[pos]))
    /\ UNCHANGED removedTask

\* DownloadManager::removeDownload: the task leaves the map, is cancelled
\* if isActive() (its state is Downloading), and is destroyed at the end;
\* stateChanged from the cancel reaches the manager, which runs
\* processQueue
removeDownload(i) ==
    /\ i \in DOMAIN mTasks
    /\ LET task == mTasks[i]
           rest == [k \in 1..(Len(mTasks) - 1) |->
                      IF k < i THEN mTasks[k] ELSE mTasks[k + 1]]
       IN IF task.state = "Downloading"
          THEN /\ removedTask' = cancelTask(task)
               /\ mTasks' = processQueue(rest, mMaxConcurrent)
          ELSE /\ removedTask' = task
               /\ mTasks' = rest
    /\ Handled(<<[op |-> "DeleteTask", id |-> mTasks[i].id, data |-> <<>>]>>)
    /\ UNCHANGED addOutcome

\* DownloadTask::pause through DownloadManager::pauseDownload; the task
\* emits needsPersistence at the end
pauseDownloadStored(i) ==
    /\ i \in DOMAIN mTasks /\ mTasks[i].state = "Downloading"
    /\ mTasks' = applyTo(mTasks, i, pauseTask, mMaxConcurrent)
    /\ Handled(saveTask(mTasks'[i]))
    /\ UNCHANGED <<addOutcome, removedTask>>

\* a worker of task i writes one block of its segment; with the last
\* block the segment is Completed and onSegmentCompleted emits
\* needsPersistence
segmentProgress(i) ==
    /\ i \in DOMAIN mTasks /\ mTasks[i].state = "Downloading"
    /\ \E k \in DOMAIN mTasks[i].segs :
          LET s == mTasks[i].segs[k]
              last == s.cur = s.end
              moved == [s EXCEPT !.cur = s.cur + 1,
                                 !.state = IF last THEN "Completed"
                                           ELSE "Active"]
          IN /\ s.state \in {"Pending", "Active"} /\ s.cur <= s.end
             /\ mTasks' = [mTasks EXCEPT ![i].segs[k] = moved]
             /\ Handled(IF last THEN saveTask(mTasks'[i]) ELSE <<>>)
    /\ UNCHANGED <<addOutcome, removedTask>>

\* DownloadTask::onAllSegmentsCompleted: Merging, Verifying, Completed,
\* and needsPersistence at the end
taskCompletedStored(i) ==
    /\ i \in DOMAIN mTasks /\ mTasks[i].state = "Downloading"
    /\ \A k \in DOMAIN mTasks[i].segs :
          mTasks[i].segs[k].state = "Completed"
    /\ mTasks' = applyTo(mTasks, i, completedTask, mMaxConcurrent)
    /\ Handled(saveTask(mTasks'[i]))
    /\ UNCHANGED <<addOutcome, removedTask>>

\* DownloadManager::onTaskNeedsPersistence for the checkpoint that
\* DownloadTask::onProgressTimer emits while task i downloads
onTaskNeedsPersistence(i) ==
    /\ i \in DOMAIN mTasks /\ mTasks[i].state = "Downloading"
    /\ mTasks' = mTasks
    /\ Handled(saveTask(mTasks[i]))
    /\ UNCHANGED <<addOutcome, removedTask>>

\* PersistenceManager::saveSetting
saveSetting(key, value) ==
    /\ mTasks' = mTasks
    /\ Handled(<<[op |-> "SaveSetting", id |-> 0,
                  data |-> <<key, value>>]>>)
    /\ UNCHANGED <<addOutcome, removedTask>>

\* the requests of saveTask for each task of tasks, in map order
RECURSIVE saveState(_)
saveState(tasks) ==
    IF tasks = <<>> THEN <<>>
    ELSE saveState([k \in 1..(Len(tasks) - 1) |-> tasks[k]])
         \o saveTask(tasks[Len(tasks)])

\* DownloadManager::shutdown: pauseAll, each paused task saving itself,
\* saveState, and the manager is destroyed with its tasks; the destructor
\* of the PersistenceManager goes on to close()
shutdown ==
    /\ LET todo == InState(mTasks, "Downloading")
           after == pauseEach(mTasks, todo, mMaxConcurrent)
           pauses == saveState([k \in 1..Cardinality(todo) |->
                        after[CHOOSE i \in todo :
                            Cardinality({j \in todo : j < i}) = k - 1]])
       IN /\ closePc = "idle"
          /\ Len(writeQueue) <= MaxQueued
          /\ enqueueWrite(pauses \o saveState(after))
    /\ mTasks' = <<>> /\ mActiveCount' = 0 /\ closePc' = "close"
    /\ UNCHANGED <<mMaxConcurrent, addOutcome, removedTask, running, dbOpen,
                   wtReq, downloadsTable, segmentsTable, settingsTable>>
    /\ UNCHANGED <<taskVars, schedVars, workerVars, fileVars, sigVars,
                   envVars, server, infoVars>>

\* the process dies: what is in memory is lost, the database file stays
crash ==
    /\ closePc \notin {"closed", "crashed"}
    /\ mTasks' = <<>> /\ mActiveCount' = 0
    /\ addOutcome' = [id |-> 0, warning |-> ""]
    /\ removedTask' = [state |-> "none"]
    /\ writeQueue' = <<>> /\ running' = FALSE /\ dbOpen' = FALSE
    /\ wtPc' = "exit" /\ wtReq' = NoReq /\ closePc' = "crashed"
    /\ UNCHANGED <<mMaxConcurrent, downloadsTable, segmentsTable,
                   settingsTable>>
    /\ UNCHANGED <<taskVars, schedVars, workerVars, fileVars, sigVars,
                   envVars, server, infoVars>>

\* DownloadManager::initialize in a new process: PersistenceManager::
\* initialize opens the database and starts the write thread, loadState
\* builds one new task for each downloads row
initialize ==
    /\ closePc \in {"closed", "crashed"}
    /\ LET ids == {id \in DOMAIN downloadsTable :
                     downloadsTable[id] # <<>>}
           idAt(k) == CHOOSE id \in ids :
                         Cardinality({j \in ids : j < id}) = k - 1
       IN mTasks' = [k \in 1..Cardinality(ids) |->
                       StoredTask(idAt(k), downloadsTable[idAt(k)].url)]
    /\ mActiveCount' = 0
    /\ addOutcome' = [id |-> 0, warning |-> ""]
    /\ removedTask' = [state |-> "none"]
    /\ writeQueue' = <<>> /\ running' = TRUE /\ dbOpen' = TRUE
    /\ wtPc' = "top" /\ wtReq' = NoReq /\ closePc' = "idle"
    /\ UNCHANGED <<mMaxConcurrent, downloadsTable, segmentsTable,
                   settingsTable>>
    /\ UNCHANGED <<taskVars, schedVars, workerVars, fileVars, sigVars,
                   envVars, server, infoVars>>

\* one download, of URL "a" under id 1, through its life, shutdowns,
\* crashes and restarts
StoreNext ==
    \/ \E now \in BOOLEAN : addDownloadOf("a", 1, now)
    \/ \E i \in TaskIds :
          \/ removeDownload(i) \/ pauseDownloadStored(i)
          \/ resumeDownload(i) \/ cancelDownload(i)
          \/ taskProbeCompleted(i)
          \/ segmentProgress(i) \/ taskCompletedStored(i)
          \/ onTaskNeedsPersistence(i)
    \/ saveSetting("theme", "dark")
    \/ shutdown
    \/ crash
    \/ initialize
    \/ writeThreadTop
    \/ writeThreadLock
    \/ writeThreadWait
    \/ writeThreadProcess
    \/ closeStop
    \/ closeNotify
    \/ closeJoin

\* downloads added and removed, started and cancelled, never probed, up
\* to a shutdown
RegistryNext ==
    \/ \E url \in {"", "a", "b"}, id \in 1..MaxStored, now \in BOOLEAN :
          addDownloadOf(url, id, now)
    \/ \E i \in TaskIds :
          removeDownload(i) \/ startDownload(i) \/ cancelDownload(i)
    \/ shutdown
    \/ writeThreadTop
    \/ writeThreadLock
    \/ writeThreadWait
    \/ writeThreadProcess
    \/ closeStop
    \/ closeNotify
    \/ closeJoin

\* ------------------------------------------------------------------------
\* Next-state relations.  The download itself (probe, workers, stealing,
\* rebalancing, merge) is part of every scenario; each scenario adds one
\* kind of environment event to it.
\* ------------------------------------------------------------------------
DownloadNext ==
    \/ TaskStart
    \/ \E len \in Sizes, ranges \in BOOLEAN : OnProbeCompleted(len, ranges)
    \/ OnProbeFailed
    \/ RebalanceSegments
    \/ OnAllSegmentsCompleted
    \/ MergeAndFinish
    \/ \E w \in Workers :
          \/ WorkerStart(w) \/ WorkerLoop(w) \/ AcquireSegment(w)
          \/ StealWork(w)
          \/ WaitForWork(w) \/ OpenTempFile(w) \/ WriteCallback(w)
          \/ TransferDone(w) \/ ReleaseSegment(w) \/ CheckAllComplete(w)

PauseNext ==
    \/ DownloadNext
    \/ TaskPause
    \/ TaskResume
    \/ \E w \in Workers : TransferAborted(w)

CancelNext ==
    \/ DownloadNext
    \/ TaskCancel
    \/ \E w \in Workers : TransferAborted(w) \/ WorkerExit(w)

FailureNext ==
    \/ DownloadNext
    \/ \E w \in Workers : TransferFailed(w)

\* no transfer succeeds, and every failure is reported through markFailed
RetryNext ==
    \/ TaskStart
    \/ \E len \in Sizes, ranges \in BOOLEAN : OnProbeCompleted(len, ranges)
    \/ OnProbeFailed
    \/ RebalanceSegments
    \/ OnSegmentFailed
    \/ \E w \in Workers :
          \/ WorkerStart(w) \/ WorkerLoop(w) \/ AcquireSegment(w)
          \/ StealWork(w)
          \/ WaitForWork(w) \/ OpenTempFile(w) \/ WriteCallback(w)
          \/ MarkFailed(w)

\* the lengths a probe reports when it has no usable Content-Length: none
\* at all (-1), or zero
UnknownLengths == {-1, 0}

\* ------------------------------------------------------------------------
\* SegmentInfo (DownloadTypes.h): the value type that carries a segment's
\* byte range and progress; its fields are independent of each other
\* ------------------------------------------------------------------------

\* SegmentInfo::remainingBytes
infoRemainingBytes(info) ==
    (info.endByte - info.startByte + 1) - info.downloadedBytes

\* canSplit with a strict comparison
canSplitStrict(info) == infoRemainingBytes(info) > MIN_SPLIT_SIZE * 2
\* SegmentInfo::canSplit
canSplit(info) == infoRemainingBytes(info) >= MIN_SPLIT_SIZE * 2

\* the state restoreSegments leaves a snapshot's state untouched in every
\* case
restoredStateAsStored(state) == state
\* the state of a segment restoreSegments has built from a snapshot in
\* that state: the default branch of its switch sets Pending
restoredState(state) ==
    IF state \in {"Pending", "Paused", "Completed", "Failed"} THEN state
    ELSE "Pending"

\* SegmentScheduler::restoreSegments(snapshots) on a scheduler that holds no
\* segments yet.  Segment::restore copies the fields of the snapshot.
RestoreSegments ==
    /\ mainPc = "idle" /\ nextSegmentId = 0 /\ segs = <<>>
    /\ LET n == Len(snapshots)
           queued == {k \in 1..n :
                        snapshots[k].state \notin {"Completed", "Failed"}}
           maxId == IF n = 0 THEN 0
                    ELSE CHOOSE m \in {snapshots[k].id : k \in 1..n} :
                            \A k \in 1..n : snapshots[k].id <= m
       IN /\ segs' = <<>> \o
                [k \in 1..n |->
                    [id |-> snapshots[k].id,
                     start |-> snapshots[k].startByte,
                     end |-> snapshots[k].endByte,
                     cur |-> snapshots[k].currentByte,
                     state |-> restoredState(snapshots[k].state),
                     retry |-> snapshots[k].retryCount,
                     path |-> snapshots[k].tempFilePath]]
          /\ pendingQueue' = SelectSeq(Range(1, n), LAMBDA k : k \in queued)
          /\ activeSegments' = {}
          /\ completedSegments' =
                {k \in 1..n : snapshots[k].state = "Completed"}
          /\ failedSegments' = {k \in 1..n : snapshots[k].state = "Failed"}
          \* SegmentId is uint32_t; the ids of the model are far below 2^32
          /\ nextSegmentId' = maxId + 1
    /\ UNCHANGED <<workerAssignments, workers, workerStats, paused,
                   cancelled, rebalanceTimer>>
    /\ UNCHANGED <<taskVars, workerVars, fileVars, sigVars, envVars,
                   mgrVars, server, infoVars>>

\* a caller reads remainingBytes() and canSplit() of the SegmentInfo
QuerySegmentInfo ==
    /\ ~infoAnswer.called
    /\ infoAnswer' = [remaining |-> infoRemainingBytes(segmentInfo),
                      canSplit |-> canSplit(segmentInfo), called |-> TRUE]
    /\ UNCHANGED <<taskVars, schedVars, workerVars, fileVars, sigVars,
                   envVars, mgrVars, server, segmentInfo, snapshots>>

\* the download, with probes that may also report no usable length
ProbeNext ==
    \/ DownloadNext
    \/ \E len \in UnknownLengths, ranges \in BOOLEAN :
          OnProbeCompleted(len, ranges)

Next ==
    \/ StoreNext
    \/ RegistryNext
    \/ ProbeNext
    \/ PauseNext
    \/ CancelNext
    \/ FailureNext
    \/ RetryNext
    \/ ManagerNext
    \/ PriorityNext
    \/ TaskRetry
    \/ UpdateStatistics
    \/ QuerySegmentInfo
    \/ RestoreSegments
    \/ TaskStartAgain

Spec == Init /\ [][Next]_vars

\* The value types of the engine on a task that has not started.  Either
\* a SegmentInfo of every shape, fields in units of MIN_SPLIT_SIZE: ranges
\* of one or more units, empty and inverted ranges, progress below, at and
\* beyond the end of the range.  Or up to MaxSnapshots snapshots as
\* Segment::snapshot() writes them: any id up to MaxSnapshotId, any state,
\* ranges of two and three units with no or one unit downloaded.
InfoInit ==
    /\ TaskInit /\ MgrIdle /\ server = "lenient" /\ Budgets(0, 0, 0, 0)
    /\ infoAnswer = [remaining |-> 0, canSplit |-> FALSE, called |-> FALSE]
    /\ \/ /\ segmentInfo \in [startByte : 0..MaxInfoBytes,
                               endByte : 0..MaxInfoBytes,
                               downloadedBytes : 0..MaxInfoBytes]
          /\ snapshots = <<>>
       \/ /\ segmentInfo =
                [startByte |-> 0, endByte |-> 0, downloadedBytes |-> 0]
          /\ \E n \in 1..MaxSnapshots :
                snapshots \in [1..n -> [id : 0..MaxSnapshotId,
                                       startByte : {0}, endByte : {1, 2},
                                       currentByte : {0, 1},
                                       state : {"Pending", "Active",
                                                "Paused", "Completed",
                                                "Failed", "Stolen"},
                                       retryCount : {0},
                                       tempFilePath : {FALSE}]]
InfoSpec == InfoInit /\ [][QuerySegmentInfo \/ RestoreSegments]_vars

\* a download nobody pauses, cancels or disturbs
DownloadInit ==
    TaskInit /\ MgrIdle /\ InfoIdle /\ ServerInit
        /\ Budgets(0, 0, 0, 0)
DownloadSpec == DownloadInit /\ [][DownloadNext]_vars

\* a download the user pauses and resumes
PauseInit ==
    TaskInit /\ MgrIdle /\ InfoIdle /\ RangeServerInit
        /\ Budgets(MaxPauses, 0, 0, 0)
PauseSpec == PauseInit /\ [][PauseNext]_vars

\* a download the user cancels
CancelInit ==
    TaskInit /\ MgrIdle /\ InfoIdle /\ ServerInit
        /\ Budgets(0, 0, MaxCancels, 0)
CancelSpec == CancelInit /\ [][CancelNext]_vars

\* a download that is cancelled before it is merged, or whose probe fails,
\* and is retried
RestartSpec ==
    /\ CancelInit
    /\ [][\/ TaskStart
          \/ \E len \in Sizes, ranges \in BOOLEAN :
                OnProbeCompleted(len, ranges)
          \/ OnProbeFailed
          \/ TaskCancel
          \/ TaskRetry
          \/ TaskStartAgain
          \/ \E w \in Workers :
                \/ WorkerStart(w) \/ WorkerLoop(w) \/ AcquireSegment(w)
                \/ StealWork(w)
                \/ WaitForWork(w) \/ OpenTempFile(w) \/ WriteCallback(w)
                \/ TransferDone(w) \/ TransferAborted(w)
                \/ ReleaseSegment(w) \/ CheckAllComplete(w)
                \/ WorkerExit(w)]_vars

\* a download whose transfers or temp files fail
FailureInit ==
    TaskInit /\ MgrIdle /\ InfoIdle /\ ServerInit
        /\ Budgets(0, MaxFailures, 0, 0)
FailureSpec == FailureInit /\ [][FailureNext]_vars

\* a download whose segments are reported failed through markFailed
RetryInit ==
    TaskInit /\ MgrIdle /\ InfoIdle /\ RangeServerInit
        /\ Budgets(0, 0, 0, MaxMarkFailed)
RetrySpec == RetryInit /\ [][RetryNext]_vars

\* one step of worker w's run() that needs nothing but the worker's thread
\* being scheduled
WorkerStep(w) ==
    \/ WorkerStart(w) \/ WorkerLoop(w) \/ AcquireSegment(w)
    \/ StealWork(w) \/ WaitForWork(w) \/ OpenTempFile(w)
    \/ WriteCallback(w) \/ TransferDone(w) \/ ReleaseSegment(w)
    \/ CheckAllComplete(w)

\* the download of the smallest file that is cut into MAX_SEGMENTS
\* segments, whose segments may be reported failed through markFailed,
\* with every pool thread scheduled again and again and the task's event
\* loop delivering every queued signal
FairRetryInit ==
    TaskInit /\ MgrIdle /\ InfoIdle /\ server = "lenient"
        /\ Budgets(0, 0, 0, MAX_RETRIES)
FairRetrySpec ==
    /\ FairRetryInit
    /\ [][\/ TaskStart
          \/ \E ranges \in BOOLEAN :
                OnProbeCompleted(MIN_SEGMENT_SIZE * MAX_SEGMENTS, ranges)
          \/ OnSegmentFailed
          \/ OnAllSegmentsCompleted
          \/ MergeAndFinish
          \/ \E w \in Workers : WorkerStep(w) \/ MarkFailed(w)]_vars
    /\ \A w \in Workers : WF_vars(WorkerStep(w))
    /\ WF_vars(OnSegmentFailed) /\ WF_vars(OnAllSegmentsCompleted)
    /\ WF_vars(MergeAndFinish)

\* a download whose probe may report an unknown or a zero length
ProbeInit == TaskInit /\ MgrIdle /\ InfoIdle /\ ServerInit
    /\ Budgets(0, 0, 0, 0)
ProbeSpec == ProbeInit /\ [][ProbeNext]_vars

\* the manager with its store
StoreInit ==
    TaskInit /\ MgrIdle /\ InfoIdle /\ server = "lenient"
        /\ Budgets(0, 0, 0, 0)
StoreSpec == StoreInit /\ [][StoreNext]_vars

\* the manager with its store, the write thread and the thread that runs
\* close() being scheduled again and again
FairStoreSpec ==
    /\ StoreInit
    /\ [][StoreNext]_vars
    /\ WF_vars(writeThreadTop) /\ WF_vars(writeThreadLock)
    /\ WF_vars(writeThreadWait) /\ WF_vars(writeThreadProcess)
    /\ WF_vars(closeStop) /\ WF_vars(closeNotify) /\ WF_vars(closeJoin)

\* a download from a server that honours ranges, with every pool thread
\* scheduled again and again, the task's event loop delivering every
\* queued signal and the rebalance timer firing
FairDownloadSpec ==
    /\ StoreInit
    /\ [][DownloadNext]_vars
    /\ \A w \in Workers : WF_vars(WorkerStep(w))
    /\ WF_vars(OnAllSegmentsCompleted) /\ WF_vars(MergeAndFinish)
    /\ WF_vars(RebalanceSegments)

\* the manager with its store and its queue timer
ReloadSpec == StoreInit /\ [][StoreNext \/ onQueueTimer]_vars

\* a download from a server that honours ranges, with its progress
\* aggregated at any time; it starts as the manager's does
ProgressSpec == StoreInit /\ [][DownloadNext \/ UpdateStatistics]_vars

\* the manager with up to MaxStored tasks of different URLs
RegistrySpec == StoreInit /\ [][RegistryNext]_vars

\* the manager with up to MaxTasks tasks
ManagerInit == TaskInit /\ MgrIdle /\ InfoIdle /\ ServerInit
    /\ Budgets(0, 0, 0, 0)
ManagerSpec == ManagerInit /\ [][ManagerNext]_vars
PrioritySpec == ManagerInit /\ [][PriorityNext]_vars

\* ------------------------------------------------------------------------
\* Properties
\* ------------------------------------------------------------------------

\* C1: whenever the task is Completed, the merged final file holds the
\* source bytes at offsets 0..total_size-1, each exactly once and in
\* ascending order.
MergedFileIsSource ==
    taskState = "Completed" => finalFile = Range(0, totalSize - 1)

\* C2: once the segments are initialised, and after any number of steal and
\* rebalance splits, the inclusive ranges [start, end] are non-empty,
\* pairwise disjoint, contiguous from offset 0 without gaps, and their sizes
\* add up to total_size.
SegmentsPartitionFile ==
    segs # <<>> =>
        LET order == SortByStart(SegIdx) IN
        /\ segs[order[1]].start = 0
        /\ \A k \in 1..(Len(order) - 1) :
              segs[order[k + 1]].start = segs[order[k]].end + 1
        /\ \A i \in SegIdx : segs[i].start <= segs[i].end
        /\ \A i, j \in SegIdx :
              i # j => \/ segs[i].end < segs[j].start
                       \/ segs[j].end < segs[i].start
        /\ SumOver(SegIdx, [i \in SegIdx |-> totalSizeOf(segs[i])])
               = totalSize

\* a state in which both kinds of split have happened: the rebalancer has
\* queued a new segment and a thief has taken another one
PartitionAfterSplits ==
    /\ Len(segs) >= MAX_SEGMENTS + 2
    /\ \E i, j \in SegIdx :
          /\ i > MAX_SEGMENTS /\ j > MAX_SEGMENTS /\ i # j
          /\ segs[i].state = "Pending" /\ segs[j].state = "Active"

\* C3: no segment is held (acquired and not yet released) by two workers at
\* the same time.
NoSegmentHeldTwice ==
    \A w1, w2 \in Workers :
        (w1 # w2 /\ Holding(w1) /\ Holding(w2)) => wSeg[w1] # wSeg[w2]

\* C4: for every segment start <= current_byte <= end + 1, also for a donor
\* whose end a split has shrunk in the middle of its transfer.
CurrentByteInRange ==
    \A i \in SegIdx :
        segs[i].start <= segs[i].cur /\ segs[i].cur <= segs[i].end + 1

\* C5: the task is Merging only when every segment is Completed; the
\* allSegmentsCompleted event never starts a merge while some segment is
\* not Completed.
MergingOnlyWhenAllCompleted ==
    taskState = "Merging" => \A i \in SegIdx : segs[i].state = "Completed"

\* C6: for one run of a task allSegmentsCompleted is emitted at most once
\* (exactly once when the run completes), however the workers' releases of
\* their last segments interleave.
AllSegmentsCompletedOnce == emitted <= 1

\* C7: each curl failure of a segment's transfer increments the segment's
\* retry_count by one (so that a segment whose transfers always fail is
\* attempted a bounded number of times).
EachFailureCountsARetry ==
    [][\A i \in SegIdx :
          (/\ i <= Len(segs')
           /\ segs[i].state # "Failed" /\ segs'[i].state = "Failed"
           /\ \E w \in Workers : wSeg[w] = i /\ wErr'[w] \in CurlCategories)
              => segs'[i].retry = segs[i].retry + 1]_vars

\* C8: a segment whose transfer failed with a non-recoverable category
\* (FileSystem, SSLError, ClientError, Unknown) is not queued for another
\* attempt when its worker releases it.
NonRecoverableNotRequeued ==
    [][\A w \in Workers :
          (/\ wpc[w] = "release" /\ wpc'[w] # "release"
           /\ wErr[w] \in {"FileSystem", "SSLError", "ClientError",
                            "Unknown"})
              => \A k \in 1..Len(pendingQueue') :
                     pendingQueue'[k] # wSeg[w]]_vars

ActiveWithinLimit ==
    /\ mMaxConcurrent \in MinConcurrent..MaxConcurrentLimit
    /\ mActiveCount <= mMaxConcurrent

\* C11: Completed is terminal: once the task is Completed no operation or
\* event changes its state.
CompletedIsTerminal ==
    [][taskState = "Completed" => taskState' = "Completed"]_vars

\* C12: a Failed task leaves Failed only through retry, and then only to
\* Queued: no probe completion, segment event or start request moves it to
\* another state.
FailedLeavesOnlyToQueued ==
    [][taskState = "Failed" => taskState' \in {"Failed", "Queued"}]_vars

\* C14: once the task is paused and its workers have reacted, no segment is
\* Active, the segments that were being downloaded are Paused and at the
\* front of the pending queue, every worker still in its run loop waits on
\* the pause condition holding no segment, and each Paused segment's
\* current byte is its start plus the length of its temp file; resume
\* leaves every current byte as it is, and a worker that takes a segment up
\* again asks for the range from the current byte, appends to the bytes
\* already in the temp file, and writes the block at the current byte.
PausedIsQuiescent ==
    /\ [](LET settled == \A w \in Workers :
                  wpc[w] \in {"idle", "done"}
                      \/ (wpc[w] = "loop" /\ wPaused[w])
          IN (taskState = "Paused" /\ settled) =>
             /\ \A i \in SegIdx : segs[i].state # "Active"
             /\ \A i \in SegIdx : segs[i].state = "Paused" =>
                    \E k \in DOMAIN pendingQueue :
                       /\ pendingQueue[k] = i
                       /\ \A j \in 1..k :
                              segs[pendingQueue[j]].state = "Paused"
             /\ \A w \in taskWorkers :
                    /\ wpc[w] = "done" \/ (wpc[w] = "loop" /\ wPaused[w])
                    /\ wSeg[w] = NoSeg /\ workerAssignments[w] = NoSeg
             /\ \A i \in SegIdx : segs[i].state = "Paused" =>
                    segs[i].cur = segs[i].start
                        + (IF segs[i].id \in DOMAIN tempFiles
                           THEN Len(tempFiles[segs[i].id]) ELSE 0))
    /\ [][/\ (taskState = "Paused" /\ taskState' = "Downloading") =>
                \A i \in SegIdx : segs'[i].cur = segs[i].cur
          /\ \A w \in Workers :
                (wpc[w] = "open" /\ wpc'[w] = "transfer") =>
                   LET s == segs[wSeg[w]] IN
                   /\ segs'[wSeg[w]].cur = s.cur
                   /\ Requested(s)[1] = s.cur
                   /\ wAppend'[w] = (s.cur > s.start)
                   /\ (s.cur > s.start /\ s.id \in DOMAIN tempFiles) =>
                          tempFiles'[s.id] = tempFiles[s.id]
          /\ \A w \in Workers :
                (wpc[w] = "transfer" /\ wPos'[w] = wPos[w] + 1) =>
                   wPos[w] = segs[wSeg[w]].cur]_vars

\* C17: when the probe reports an unknown size or no range support, the
\* task has exactly one segment and one worker for its whole run: no
\* stealWork or rebalanceSegments call adds a second segment.
SingleSegmentWithoutRanges ==
    (capsValid /\ (~supportsRanges \/ contentLength <= 0)) =>
        /\ Len(segs) = 1
        /\ nextSegmentId = 1
        /\ Cardinality(taskWorkers) <= 1
        /\ taskState = "Downloading" => Cardinality(taskWorkers) = 1

\* C17 witness: the probe found no length, the server supports ranges, and
\* the task's worker has finished the only segment and called stealWork,
\* which found nothing to split
StealFoundNothing ==
    /\ capsValid /\ supportsRanges /\ contentLength = -1
    /\ taskState = "Downloading"
    /\ wpc[1] = "wait" /\ completedSegments = {1}

\* C18: when the probe reports a length of zero, no worker sends a request:
\* the single segment is Pending or Completed in every state, and a
\* Completed task has an empty final file.
ZeroLengthCompletesWithoutRequest ==
    (capsValid /\ contentLength = 0) =>
        /\ Len(segs) = 1
        /\ segs[1].state \in {"Pending", "Completed"}
        /\ \A w \in Workers : wpc[w] \notin {"open", "transfer", "release"}
        /\ taskState = "Completed" => finalExists /\ finalFile = <<>>

\* C16: close() drains the write queue.  When the database has been closed
\* no request is left in the queue or with the write thread; short of a
\* crash, the queue changes only by requests appended at its end or by
\* its head passing to the write thread, and the write thread lets go of a
\* request only by applying it to the tables before it takes the next.
WritesDrainedInOrder ==
    /\ [](closePc = "closed" =>
            ~dbOpen /\ writeQueue = <<>> /\ wtReq = NoReq)
    /\ [][closePc' # "crashed" =>
            /\ writeQueue' # writeQueue =>
                  \/ /\ wtReq = NoReq /\ writeQueue # <<>>
                     /\ wtReq' = Head(writeQueue)
                     /\ writeQueue' = Tail(writeQueue)
                  \/ /\ Len(writeQueue') > Len(writeQueue)
                     /\ SubSeq(writeQueue', 1, Len(writeQueue)) = writeQueue
                     /\ wtReq' = wtReq
            /\ (wtReq # NoReq /\ wtReq' # wtReq) =>
                  /\ wtReq' = NoReq /\ dbOpen
                  /\ wtReq.op = "SaveTask" =>
                        downloadsTable'[wtReq.id] = wtReq.data
                  /\ wtReq.op = "SaveSegment" =>
                        \E k \in DOMAIN segmentsTable'[wtReq.id] :
                           segmentsTable'[wtReq.id][k] = wtReq.data
                  /\ wtReq.op = "DeleteTask" =>
                        /\ downloadsTable'[wtReq.id] = <<>>
                        /\ segmentsTable'[wtReq.id] = <<>>
                  /\ wtReq.op = "SaveSetting" =>
                        \E k \in DOMAIN settingsTable' :
                           settingsTable'[k] = wtReq.data
       ]_vars
\* close() waits for the write thread, which is applying one request while
\* others are queued behind it
ClosingWithPendingWrites ==
    /\ closePc = "join" /\ wtPc = "process" /\ writeQueue # <<>>
    /\ wtReq.op = "SaveSegment" /\ Head(writeQueue).op = "SaveTask"

\* C19: no two tasks of the manager have the same URL and none has an
\* invalid one; a step that adds a task adds one whose URL no task had,
\* and returns its id; an add that answers "URL already exists" leaves
\* the tasks as they were and returns the id of a task that is held;
\* an add of an invalid URL returns the null id and leaves the tasks.
UrlsAreUnique ==
    /\ [](/\ \A j, k \in DOMAIN mTasks :
                mTasks[j].url = mTasks[k].url => j = k
          /\ \A k \in DOMAIN mTasks : mTasks[k].url # ""
          /\ addOutcome.warning = "Invalid URL" => addOutcome.id = 0)
    /\ [][/\ Len(mTasks') > Len(mTasks) =>
                /\ Len(mTasks') = Len(mTasks) + 1
                /\ addOutcome'.warning = ""
                /\ \E k \in DOMAIN mTasks' :
                      /\ mTasks'[k].id = addOutcome'.id
                      /\ findByUrl(mTasks, mTasks'[k].url) = {}
          /\ (addOutcome' # addOutcome /\ addOutcome'.warning # "") =>
                /\ mTasks' = mTasks
                /\ addOutcome'.warning = "URL already exists" =>
                      \E k \in DOMAIN mTasks : mTasks[k].id = addOutcome'.id
       ]_vars
\* two URLs are held, one of them by a task that was started, a task has
\* been removed before, and the last add was refused as a duplicate
DuplicateAddRefused ==
    /\ Len(mTasks) = 2 /\ addOutcome.warning = "URL already exists"
    /\ removedTask.state # "none"
    /\ \E k \in DOMAIN mTasks :
          mTasks[k].id = addOutcome.id /\ mTasks[k].state # "Queued"

\* C20: a task that removeDownload takes out of the manager was cancelled
\* (it is Failed when it is destroyed) if it was Probing, Downloading,
\* Merging or Verifying; and while the manager lives, once the write
\* queue has drained, the store has no download row and no segment row
\* of an id that the manager does not hold.
RemovedTaskCancelledAndErased ==
    /\ [](/\ closePc = "idle" /\ writeQueue = <<>> /\ wtReq = NoReq
          => \A id \in 1..MaxTasks :
                id \notin {mTasks[k].id : k \in DOMAIN mTasks} =>
                   downloadsTable[id] = <<>> /\ segmentsTable[id] = <<>>)
    /\ [][/\ closePc = "idle" /\ closePc' = "idle"
          /\ Len(mTasks') < Len(mTasks)
          => \A i \in DOMAIN mTasks :
                /\ mTasks[i].id \notin {mTasks'[k].id : k \in DOMAIN mTasks'}
                /\ mTasks[i].state \in ActiveStates
                => removedTask'.state = "Failed"
       ]_vars

\* C15: every transition is persisted.  In a step of the living manager,
\* a task whose state differs from the state it had before (Queued for a
\* task that is new) has a SaveTask request with its new state among the
\* requests that the step appends to the write queue.
EveryTransitionPersisted ==
    [][/\ closePc = "idle" /\ closePc' = "idle"
       => \A k \in DOMAIN mTasks' :
             LET before == {j \in DOMAIN mTasks :
                              mTasks[j].id = mTasks'[k].id}
                 old == IF before = {} THEN "Queued"
                        ELSE mTasks[CHOOSE j \in before : TRUE].state
             IN mTasks'[k].state # old =>
                   \E q \in DOMAIN writeQueue' :
                      /\ q > Len(writeQueue)
                      /\ writeQueue'[q].op = "SaveTask"
                      /\ writeQueue'[q].id = mTasks'[k].id
                      /\ writeQueue'[q].data.state = mTasks'[k].state
    ]_vars

\* C13: when the manager starts again after a shutdown or a crash, a task
\* whose stored state is Downloading or Paused is loaded as Paused with
\* one segment for each of its stored segment rows, an Active row as
\* Pending and each with the stored current byte; and a resume leaves
\* every segment's current byte where it is.
StoredProgressRestored ==
    [][/\ (closePc \in {"closed", "crashed"} /\ closePc' = "idle") =>
             \A id \in DOMAIN downloadsTable :
                (/\ downloadsTable[id] # <<>>
                 /\ downloadsTable[id].state \in {"Downloading", "Paused"})
                => \E k \in DOMAIN mTasks' :
                      LET rows == segmentsTable[id]
                          task == mTasks'[k]
                      IN /\ task.id = id /\ task.state = "Paused"
                         /\ Len(task.segs) = Len(rows)
                         /\ \A j \in DOMAIN rows :
                               /\ task.segs[j].cur = rows[j].cur
                               /\ rows[j].state = "Active" =>
                                     task.segs[j].state = "Pending"
       /\ (closePc = "idle" /\ closePc' = "idle") =>
             \A k \in DOMAIN mTasks : \A n \in DOMAIN mTasks' :
                (/\ mTasks[k].id = mTasks'[n].id
                 /\ mTasks[k].state = "Paused"
                 /\ mTasks'[n].state = "Downloading")
                => \A j \in DOMAIN mTasks[k].segs :
                      mTasks'[n].segs[j].cur = mTasks[k].segs[j].cur
    ]_vars

\* C21: processQueue starts the queued tasks by descending priority.  In
\* a step that leaves the tasks in place, where the only starts are those
\* of processQueue, a task that is started has at least the priority of
\* every task that stays Queued, and the tasks that are active after a
\* start are no more than the limit.
QueueStartsByPriority ==
    [][Len(mTasks') = Len(mTasks) =>
          \A j \in DOMAIN mTasks :
             (/\ mTasks[j].state = "Queued"
              /\ mTasks'[j].state \in {"Probing", "Downloading"}) =>
                /\ updateCounts(mTasks') <= mMaxConcurrent'
                /\ \A k \in DOMAIN mTasks :
                      (/\ mTasks[k].state = "Queued"
                       /\ mTasks'[k].state = "Queued")
                      => mTasks[k].priority <= mTasks[j].priority
    ]_vars
\* every slot is taken, and a task is Queued that comes before a started
\* task of higher priority in the map
HigherPriorityStartedFirst ==
    /\ mActiveCount = mMaxConcurrent
    /\ \E j, k \in DOMAIN mTasks :
          /\ j < k /\ mTasks[j].state = "Queued"
          /\ mTasks[k].state = "Probing"
          /\ mTasks[k].priority > mTasks[j].priority

\* C22: a retry of a Failed task (the step in which the error of a Failed
\* task is cleared) leaves the task Queued with category None and the
\* scheduler reset: no segments, nothing pending, active, completed or
\* failed, and the paused and cancelled flags false.
RetryResetsToQueued ==
    [][(taskState = "Failed" /\ lastError # "None" /\ lastError' = "None")
       => /\ taskState' = "Queued"
          /\ segs' = <<>> /\ pendingQueue' = <<>>
          /\ activeSegments' = {} /\ completedSegments' = {}
          /\ failedSegments' = {}
          /\ ~paused' /\ ~cancelled'
    ]_vars

\* C23: a step that gives the task's downloaded byte count a new value
\* (the progress timer's tick, or the handling of a completed segment)
\* makes it the sum, over every segment the scheduler holds, those that
\* splits have added included, of current byte minus start byte.
ProgressIsSumOfSegments ==
    [][mDownloadedBytes' # mDownloadedBytes =>
          mDownloadedBytes' =
             SumOver(DOMAIN segs',
                     [i \in DOMAIN segs' |-> segs'[i].cur - segs'[i].start])
    ]_vars
\* the count has been taken after a split, with bytes written to the
\* segment that the split added
ProgressCountsSplitSegment ==
    /\ taskState = "Downloading" /\ Len(segs) > MAX_SEGMENTS
    /\ segs[Len(segs)].cur > segs[Len(segs)].start
    /\ mDownloadedBytes = totalDownloadedBytes(segs)
    /\ mDownloadedBytes > 0

\* C24: segment ids are never reused.  The segments of the task have
\* pairwise different ids, all below the id counter; the counter never
\* goes back, and a segment that a step adds has an id that is not below
\* the counter of before, so above every id handed out until then, a retry
\* of the task included.
SegmentIdsNeverReused ==
    /\ [](/\ \A i, j \in DOMAIN segs : segs[i].id = segs[j].id => i = j
          /\ \A i \in DOMAIN segs : segs[i].id < nextSegmentId)
    /\ [][/\ nextSegmentId' >= nextSegmentId
          /\ \A i \in DOMAIN segs' :
                i \notin DOMAIN segs => segs'[i].id >= nextSegmentId
       ]_vars

\* C25: every change of a segment's state is Pending to Active, Pending to
\* Completed for a segment of no length, Active to Completed, Failed,
\* Paused or Pending, Failed to Pending with fewer than MAX_RETRIES
\* retries, or Paused to Pending.
SegmentTransitionsLegal ==
    [][\A i \in DOMAIN segs \cap DOMAIN segs' :
          LET old == segs[i].state
              new == segs'[i].state
          IN \/ new = old
             \/ old = "Pending" /\ new = "Active"
             \/ old = "Pending" /\ new = "Completed"
                /\ totalSizeOf(segs[i]) = 0
             \/ old = "Active"
                /\ new \in {"Completed", "Failed", "Paused", "Pending"}
             \/ old = "Failed" /\ new = "Pending"
                /\ segs[i].retry < MAX_RETRIES
             \/ old = "Paused" /\ new = "Pending"
    ]_vars

\* C26: whenever remainingBytes() and canSplit() of a SegmentInfo have been
\* read, remainingBytes() returned (endByte - startByte + 1) -
\* downloadedBytes and canSplit() returned true exactly when that number is
\* at least 2 * MIN_SPLIT_SIZE.
SegmentInfoRemainingAndSplit ==
    infoAnswer.called =>
        /\ infoAnswer.remaining =
               (segmentInfo.endByte - segmentInfo.startByte + 1)
               - segmentInfo.downloadedBytes
        /\ infoAnswer.canSplit <=>
               (infoAnswer.remaining >= 2 * MIN_SPLIT_SIZE)

\* C26 witness: a partly downloaded SegmentInfo whose remainder is exactly
\* 2 * MIN_SPLIT_SIZE was asked and answered that it can be split.
InfoSplitAtThreshold ==
    /\ infoAnswer.called /\ infoAnswer.canSplit
    /\ segmentInfo.downloadedBytes > 0
    /\ infoAnswer.remaining = 2 * MIN_SPLIT_SIZE

\* C27: a stealWork call that returns a segment runs while the scheduler is
\* neither paused nor cancelled; its donor is a member of the active set in
\* state Active whose remainder is at least 2 * MIN_STEAL_SIZE and is the
\* greatest among such segments; with midpoint = current byte + remainder /
\* 2 the donor's end becomes midpoint - 1 and nothing else of the donor
\* changes, so it stays Active and keeps its worker; the returned segment
\* has an id no other segment has, covers [midpoint, the donor's old end],
\* is Active, is in the active set and is assigned to the caller.
StealSplitsLargestActive ==
    [][\A w \in Workers :
          (wpc[w] = "steal" /\ wpc'[w] = "open") =>
              /\ ~paused /\ ~cancelled
              /\ Len(segs') = Len(segs) + 1
              /\ \E d \in activeSegments :
                    LET rem == segs[d].end - segs[d].cur + 1
                        midpoint == segs[d].cur + (rem \div 2)
                        new == Len(segs')
                    IN  /\ segs[d].state = "Active"
                        /\ rem >= 2 * MIN_STEAL_SIZE
                        /\ \A t \in activeSegments :
                              (/\ segs[t].state = "Active"
                               /\ remainingBytes(segs[t])
                                      >= 2 * MIN_STEAL_SIZE)
                                  => remainingBytes(segs[t]) <= rem
                        /\ segs'[d] = [segs[d] EXCEPT !.end = midpoint - 1]
                        /\ \E v \in Workers \ {w} :
                              /\ workerAssignments[v] = d
                              /\ workerAssignments'[v] = d
                        /\ segs'[new].start = midpoint
                        /\ segs'[new].end = segs[d].end
                        /\ segs'[new].state = "Active"
                        /\ \A t \in SegIdx : segs[t].id # segs'[new].id
                        /\ new \in activeSegments'
                        /\ workerAssignments'[w] = new]_vars

\* C28: a stealWork call made while no segment in state Active has a
\* remainder of at least 2 * MIN_STEAL_SIZE returns nothing and changes
\* nothing in the scheduler: the segments (their ends and states), the
\* pending queue, the active, completed and failed sets, the worker
\* assignments and the id counter are what they were.
StealWithoutDonorChangesNothing ==
    [][\A w \in Workers :
          (/\ wpc[w] = "steal" /\ wpc'[w] # "steal"
           /\ \A t \in SegIdx :
                 segs[t].state = "Active"
                     => remainingBytes(segs[t]) < 2 * MIN_STEAL_SIZE)
              => /\ wpc'[w] = "wait"
                 /\ UNCHANGED <<segs, pendingQueue, activeSegments,
                                completedSegments, failedSegments,
                                workerAssignments, nextSegmentId>>]_vars

\* C29: whenever rebalanceSegments may run, it splits every segment of the
\* active set that is in state Active, is assigned to a registered worker
\* whose throughput is below 50% of the mean, and has a remainder of at
\* least 2 * MIN_STEAL_SIZE; and every split it makes puts the upper half
\* [midpoint, the donor's old end] at the back of the pending queue as a
\* Pending segment.
RebalanceSplitsSlowSegments ==
    /\ [](\A s \in activeSegments :
            (/\ mainPc = "idle" /\ rebalanceTimer
             /\ ~paused /\ ~cancelled
             /\ segs[s].state = "Active"
             /\ remainingBytes(segs[s]) >= 2 * MIN_STEAL_SIZE
             /\ \E w \in workers : workerAssignments[w] = s /\ Slow(w))
                => ENABLED (RebalanceSegments /\ segs'[s].end < segs[s].end))
    /\ [][(/\ taskState = "Downloading" /\ taskState' = "Downloading"
            /\ Len(pendingQueue') > Len(pendingQueue)
            /\ Len(segs') > Len(segs)) =>
              \A k \in (Len(segs) + 1)..Len(segs') :
                 /\ segs'[k].state = "Pending"
                 /\ pendingQueue'[Len(pendingQueue) + k - Len(segs)] = k
                 /\ \E d \in activeSegments :
                       /\ segs'[d].end < segs[d].end
                       /\ segs'[k].start = segs[d].cur
                              + (remainingBytes(segs[d]) \div 2)
                       /\ segs'[k].start = segs'[d].end + 1
                       /\ segs'[k].end = segs[d].end]_vars

NoWorkHandedOutWhileStopped ==
    [][((paused \/ cancelled) /\ (paused' \/ cancelled')) =>
          /\ \A i \in DOMAIN segs' :
                segs'[i].state = "Active" =>
                    i \in DOMAIN segs /\ segs[i].state = "Active"
          /\ activeSegments' \subseteq activeSegments
          /\ \A w \in Workers :
                workerAssignments'[w] \in {NoSeg, workerAssignments[w]}
          /\ \A w \in Workers :
                wpc[w] \in {"acquire", "steal"} =>
                    wpc'[w] \in {wpc[w], "wait"}]_vars

\* C32 witness: the scheduler is paused with a segment in the pending
\* queue, and the task's only worker, which had passed its pause check
\* before the pause, has asked for a segment and waits for work with none
\* (being the only worker, it cannot have found the queue empty earlier).
RefusedWhilePaused ==
    \E w \in Workers :
        /\ paused /\ pendingQueue # <<>> /\ taskWorkers = {w}
        /\ wpc[w] = "wait" /\ wPaused[w]
        /\ wSeg[w] = NoSeg /\ workerAssignments[w] = NoSeg

\* C33: a worker whose transfer was aborted because stop was requested
\* releases its segment in state Paused: the release puts the segment at
\* the front of the pending queue, still Paused and with its current byte
\* as it was, and the worker goes to the end of its run loop, from where it
\* only leaves (it takes no other segment).
StoppedWorkerReleasesPaused ==
    [][\A w \in Workers :
          /\ (/\ wpc[w] = "release" /\ wpc'[w] # "release"
              /\ wStop[w] /\ ~wOk[w] /\ wErr[w] = "None") =>
                 /\ segs[wSeg[w]].state = "Paused"
                 /\ pendingQueue' # <<>> /\ pendingQueue'[1] = wSeg[w]
                 /\ segs'[wSeg[w]] = segs[wSeg[w]]
                 /\ wpc'[w] = "exit"
          /\ (wpc[w] = "exit" /\ wpc'[w] # "exit") =>
                 /\ wpc'[w] = "done"
                 /\ wSeg'[w] = NoSeg /\ workerAssignments'[w] = NoSeg]_vars

\* C34: while the scheduler is not cancelled, every segment is in exactly
\* one of the pending queue, the active set, the completed set and the
\* failed set, and occurs at most once in the pending queue; and a segment
\* is in the active set exactly when exactly one worker is assigned to it.
EachSegmentInOneCollection ==
    ~cancelled =>
        \A i \in SegIdx :
            LET inQueue == Cardinality({k \in DOMAIN pendingQueue :
                                          pendingQueue[k] = i})
                inSets == Cardinality({S \in {"a", "c", "f"} :
                             \/ S = "a" /\ i \in activeSegments
                             \/ S = "c" /\ i \in completedSegments
                             \/ S = "f" /\ i \in failedSegments})
                assigned == {w \in Workers : workerAssignments[w] = i}
            IN  /\ inQueue <= 1
                /\ inQueue + inSets = 1
                /\ i \in activeSegments <=> Cardinality(assigned) = 1

\* C35: a step taken on a task that is Paused, Merging, Verifying or Failed,
\* other than a retry (the step that clears the error of a Failed task)
\* and the completion of a probe still in flight, leaves every segment in place with its id and with a current byte no
\* smaller than before, and starts no worker that was not already waiting
\* to start: a start request on such a task initialises no segments and
\* spawns no workers.
StartLeavesStartedTaskAlone ==
    [][(/\ taskState \in {"Paused", "Merging", "Verifying", "Failed"}
        /\ ~probing
        /\ ~(taskState = "Failed" /\ lastError # "None"
                /\ lastError' = "None")) =>
          /\ \A i \in SegIdx :
                /\ i \in DOMAIN segs'
                /\ segs'[i].id = segs[i].id
                /\ segs'[i].cur >= segs[i].cur
          /\ \A w \in Workers : wpc'[w] = "start" => wpc[w] = "start"]_vars

\* C36: a task that the queue timer's processQueue starts has no row in
\* the downloads table yet or a row whose state is none of Completed,
\* Failed and Paused: a task that was persisted in one of these states and
\* loaded at startup is not started automatically.
OnlyPersistedQueuedAutoStarted ==
    [][(/\ mTasks' = processQueue(mTasks, mMaxConcurrent)
        /\ mTasks' # mTasks /\ writeQueue' = writeQueue
        /\ closePc = "idle" /\ closePc' = "idle") =>
          \A k \in DOMAIN mTasks :
             mTasks'[k].state # mTasks[k].state =>
                \/ downloadsTable[mTasks[k].id] = <<>>
                \/ downloadsTable[mTasks[k].id].state
                      \notin {"Completed", "Failed", "Paused"}]_vars

\* C37: while the task is Failed by a cancel (its worker objects dropped,
\* its temp files removed), no worker is inside its run loop: every worker
\* has not entered run() or has left it.
CancelledTaskHasNoRunningWorker ==
    (taskState = "Failed" /\ lastError = "Cancelled") =>
        \A w \in Workers : wpc[w] \in {"none", "start", "done"}

CloseTerminates ==
    (closePc = "close") ~> (closePc \in {"closed", "crashed"})

\* C40: a task that is Downloading eventually is Completed with every
\* segment Completed and allSegmentsCompleted emitted, and the task
\* becomes Completed only from Merging, whose slot goes through Verifying.
DownloadingLeadsToCompleted ==
    /\ (taskState = "Downloading") ~>
          (/\ taskState = "Completed"
           /\ \A i \in SegIdx : segs[i].state = "Completed"
           /\ completedSegments = SegIdx
           /\ emitted >= 1)
    /\ [][(taskState' = "Completed" /\ taskState # "Completed") =>
             taskState = "Merging"]_vars
\* a download of MAX_SEGMENTS segments has run to Completed
MultiSegmentDownloadCompleted ==
    /\ taskState = "Completed" /\ Len(segs) >= MAX_SEGMENTS
    /\ \A i \in SegIdx : segs[i].state = "Completed"
    /\ emitted >= 1 /\ finalExists

====
